---- MODULE Spec2Model ----
(***************************************************************************)
(* Model of the retrieval and generation engine of knowledge-graph-rag:    *)
(*   EmbeddingService      (backend/src/services/EmbeddingService.ts)      *)
(*   AIProviderService     (backend/src/services/AIProviderService.ts)     *)
(*   KnowledgeGraphService (backend/src/services/KnowledgeGraphService.ts) *)
(*   ChatController        (backend/src/controllers/ChatController.ts)     *)
(* Strings that the code only passes around are TLA+ strings; strings the  *)
(* code looks into (model names) also have their characters in Chars.      *)
(* A thrown Error is a result with ok = FALSE whose error is the sequence  *)
(* of the parts its message is concatenated from.  Similarity scores are   *)
(* kept in hundredths (0.7 is 70).                                         *)
(***************************************************************************)
EXTENDS Integers, Sequences, FiniteSets, TLC

VARIABLES
    env,        \* process.env, read by the services
    nodes,      \* MongoDB collection KnowledgeNode: _id -> document
    relations,  \* MongoDB collection KnowledgeRelation: set of documents
    points,     \* Qdrant collection knowledge_embeddings: set of points
    collection, \* Qdrant collection knowledge_embeddings: whether it exists, its vectors
    nextId,     \* number of MongoDB ObjectIds handed out so far
    deleted,    \* history: ids of the nodes their owner deleted successfully
    writes,     \* number of operations that changed a store so far
    op,         \* name of the operation that ran last
    req,        \* its request, with the outcomes of the outbound calls
    res,        \* its result: [ok, value, error]
    calls       \* the outbound provider calls it made, in order

vars == <<env, nodes, relations, points, collection, nextId, deleted, writes, op, req, res, calls>>
store == <<nodes, relations, points, collection, nextId, deleted, writes>>

(***************************************************************************)
(* Bounds and input sets                                                   *)
(***************************************************************************)
MaxNodes == 2
MaxWrites == 2
MaxOps == 3
\* operations of a behaviour that adds relations by hand
MaxRelationOps == 4

Tenants == {"A", "B"}

\* Directions of embedding vectors; all have norm 5, so that the cosine of
\* any two of them is a whole number of hundredths: 60 or 100.
Dirs == {<<5, 0>>, <<3, 4>>}

OpenAIDim == 1536
OllamaDim == 768

EmbeddingModelHints == {"", "text-embedding-ada-002", "mxbai-embed-large"}
OllamaEmbeddingModels == {"", "mxbai-embed-large"}
EmbFailureCauses == {"quota"}
GenFailureCauses == {"quota", "auth"}

ProviderPins == {"", "openai", "anthropic", "ollama", "cohere"}
ChatModels == {"", "gpt-4"}

\* The active custom API keys of the tenant (User.apiKeys), by _id.
UserApiKeys ==
    [ck \in {"ck-openai", "ck-anthropic"} |->
        CASE ck = "ck-openai"    -> [provider |-> "openai",    key |-> "sk-user-openai"]
          [] ck = "ck-anthropic" -> [provider |-> "anthropic", key |-> "sk-user-anthropic"]]

CustomKeyIds == {""} \cup DOMAIN UserApiKeys

(***************************************************************************)
(* JavaScript helpers                                                      *)
(***************************************************************************)
\* a || b on strings: the empty string and undefined (both "") are falsy
Or(a, b) == IF a # "" THEN a ELSE b

Chars ==
    [s \in {"text-embedding-3-small", "text-embedding-ada-002", "nomic-embed-text",
            "mxbai-embed-large", "ollama-text-embedding",
            "text-embedding", "openai", "nomic-embed", "ollama"} |->
      CASE s = "text-embedding-3-small" -> <<"t","e","x","t","-","e","m","b","e","d","d","i","n","g","-","3","-","s","m","a","l","l">>
        [] s = "text-embedding-ada-002" -> <<"t","e","x","t","-","e","m","b","e","d","d","i","n","g","-","a","d","a","-","0","0","2">>
        [] s = "nomic-embed-text"       -> <<"n","o","m","i","c","-","e","m","b","e","d","-","t","e","x","t">>
        [] s = "mxbai-embed-large"      -> <<"m","x","b","a","i","-","e","m","b","e","d","-","l","a","r","g","e">>
        [] s = "ollama-text-embedding"  -> <<"o","l","l","a","m","a","-","t","e","x","t","-","e","m","b","e","d","d","i","n","g">>
        [] s = "text-embedding"         -> <<"t","e","x","t","-","e","m","b","e","d","d","i","n","g">>
        [] s = "openai"                 -> <<"o","p","e","n","a","i">>
        [] s = "nomic-embed"            -> <<"n","o","m","i","c","-","e","m","b","e","d">>
        [] s = "ollama"                 -> <<"o","l","l","a","m","a">>]

\* String.prototype.includes
Includes(s, pat) ==
    LET cs == Chars[s]
        cp == Chars[pat]
    IN \E i \in 1..(Len(cs) - Len(cp) + 1) : SubSeq(cs, i, i + Len(cp) - 1) = cp

NoValue == [none |-> TRUE]
Ok(v, cs) == [ok |-> TRUE, value |-> v, error |-> <<>>, calls |-> cs]
Err(msg, cs) == [ok |-> FALSE, value |-> NoValue, error |-> msg, calls |-> cs]

(***************************************************************************)
(* Outcomes of the outbound calls: what the remote provider answers        *)
(***************************************************************************)
EmbOutcomes ==
    {[ok |-> TRUE, cause |-> "", v |-> d, tokens |-> 7] : d \in Dirs}
    \cup {[ok |-> FALSE, cause |-> c, v |-> <<0, 0>>, tokens |-> 0] : c \in EmbFailureCauses}

GenOutcomes ==
    {[ok |-> TRUE, cause |-> "", answer |-> "answer", tokens |-> 9]}
    \cup {[ok |-> FALSE, cause |-> c, answer |-> "", tokens |-> 0] : c \in GenFailureCauses}

(***************************************************************************)
(* EmbeddingService                                                        *)
(***************************************************************************)
useOllamaFallback == env.USE_OLLAMA_FALLBACK # "false"

generateEmbeddingWithOllama(text, model, s) ==
    LET ollamaModel == Or(Or(model, env.OLLAMA_EMBEDDING_MODEL), "nomic-embed-text")
        call == [provider |-> "ollama", model |-> ollamaModel]
    IN IF s.ok
       THEN Ok([embedding |-> [dim |-> OllamaDim, v |-> s.v],
                model |-> ollamaModel, tokens |-> 0], <<call>>)
       ELSE Err(<<"Failed to generate embedding with Ollama">>, <<call>>)

\* The fallback is taken whatever USE_OLLAMA_FALLBACK says.
generateEmbedding_noFallbackCheck(request, p, s) ==
    LET model == Or(Or(request.model, env.DEFAULT_EMBEDDING_MODEL), "text-embedding-3-small")
        call == [provider |-> "openai", model |-> model]
        o == generateEmbeddingWithOllama(request.text, request.model, s)
    IN IF p.ok
       THEN Ok([embedding |-> [dim |-> OpenAIDim, v |-> p.v],
                model |-> model, tokens |-> p.tokens], <<call>>)
       ELSE IF o.ok
            THEN Ok(o.value, <<call>> \o o.calls)
            ELSE Err(<<"Failed to generate embedding with any provider">>,
                     <<call>> \o o.calls)

generateEmbedding(request, p, s) ==
    LET model == Or(Or(request.model, env.DEFAULT_EMBEDDING_MODEL), "text-embedding-3-small")
        call == [provider |-> "openai", model |-> model]
        o == generateEmbeddingWithOllama(request.text, request.model, s)
    IN IF p.ok
       THEN Ok([embedding |-> [dim |-> OpenAIDim, v |-> p.v],
                model |-> model, tokens |-> p.tokens], <<call>>)
       ELSE IF useOllamaFallback
            THEN IF o.ok
                 THEN Ok(o.value, <<call>> \o o.calls)
                 ELSE Err(<<"Failed to generate embedding with any provider">>,
                          <<call>> \o o.calls)
            ELSE Err(<<"OpenAI embedding failed: ", p.cause>>, <<call>>)

(***************************************************************************)
(* KnowledgeGraphService.getVectorName                                     *)
(***************************************************************************)
\* Unknown models go to the ollama vector.
getVectorName_unknownToOllama(model) ==
    IF Includes(model, "text-embedding") \/ Includes(model, "openai")
    THEN "openai"
    ELSE "ollama"

getVectorName(model) ==
    IF Includes(model, "text-embedding") \/ Includes(model, "openai")
    THEN "openai"
    ELSE IF Includes(model, "nomic-embed") \/ Includes(model, "ollama")
         THEN "ollama"
         ELSE "openai"

(***************************************************************************)
(* AIProviderService                                                       *)
(***************************************************************************)
getDefaultProvider_anthropicFirst ==
    IF env.ANTHROPIC_API_KEY # "" THEN "anthropic"
    ELSE IF env.OPENAI_API_KEY # "" THEN "openai"
    ELSE "ollama"

getDefaultProvider ==
    IF env.OPENAI_API_KEY # "" THEN "openai"
    ELSE IF env.ANTHROPIC_API_KEY # "" THEN "anthropic"
    ELSE "ollama"

getDefaultModel(provider) ==
    CASE provider = "openai"    -> Or(env.OPENAI_MODEL, "gpt-4-turbo-preview")
      [] provider = "anthropic" -> Or(env.ANTHROPIC_MODEL, "claude-3-sonnet-20240229")
      [] provider = "ollama"    -> Or(env.OLLAMA_MODEL, "llama2")
      [] OTHER                  -> Or(env.OLLAMA_MODEL, "llama2")

ChatResponse(request, message, model, provider, tokens) ==
    [message |-> message,
     metadata |-> [model |-> model, provider |-> provider, tokens |-> tokens,
                   sources |-> request.context]]

\* Array.prototype.join: the items are texts, each a sequence of parts
RECURSIVE Join(_, _)
Join(items, sep) ==
    IF items = <<>> THEN <<>>
    ELSE IF Len(items) = 1 THEN Head(items)
         ELSE Head(items) \o <<sep>> \o Join(Tail(items), sep)

\* request.context is [present, items]: an absent context is falsy, an array
\* is truthy even when it is empty
buildMessages(request) ==
    (IF request.context.present /\ Len(request.context.items) > 0
     THEN <<[role |-> "system",
             content |-> <<"Context: ">> \o Join(request.context.items, "\n\n")]>>
     ELSE <<>>)
    \o <<[role |-> "user", content |-> <<request.message>>]>>

\* const systemPrompt of generateAnthropicResponse and generateOllamaResponse
systemPrompt(request) ==
    IF request.context.present
    THEN <<"Context: ">> \o Join(request.context.items, "\n\n") \o <<"\n\n">>
    ELSE <<>>

generateOpenAIResponse(request, userApiKey, o) ==
    LET apiKey == Or(userApiKey, env.OPENAI_API_KEY)
        model == Or(request.model, "gpt-4-turbo-preview")
        call == [provider |-> "openai", model |-> model, apiKey |-> apiKey,
                 messages |-> buildMessages(request)]
    IN IF o.ok
       THEN Ok(ChatResponse(request, o.answer, model, "openai", o.tokens), <<call>>)
       ELSE Err(<<"Failed to generate OpenAI response">>, <<call>>)

generateAnthropicResponse(request, userApiKey, o) ==
    LET apiKey == Or(userApiKey, env.ANTHROPIC_API_KEY)
        model == Or(request.model, "claude-3-sonnet-20240229")
        call == [provider |-> "anthropic", model |-> model, apiKey |-> apiKey,
                 system |-> systemPrompt(request),
                 messages |-> <<[role |-> "user", content |-> <<request.message>>]>>]
    IN IF o.ok
       THEN Ok(ChatResponse(request, o.answer, model, "anthropic", o.tokens), <<call>>)
       ELSE Err(<<"Failed to generate Anthropic response">>, <<call>>)

generateOllamaResponse(request, model, o) ==
    LET ollamaModel == Or(Or(model, env.OLLAMA_MODEL), "llama2")
        call == [provider |-> "ollama", model |-> ollamaModel, apiKey |-> "",
                 prompt |-> systemPrompt(request) \o <<request.message>>]
    IN IF o.ok
       THEN Ok(ChatResponse(request, o.answer, ollamaModel, "ollama", 0), <<call>>)
       ELSE Err(<<"Failed to generate Ollama response">>, <<call>>)

\* The fallback call is given the model resolved for the request.
generateResponse_fallbackKeepsModel(request, userApiKey, first, local) ==
    LET provider == Or(request.provider, getDefaultProvider)
        model == Or(request.model, getDefaultModel(provider))
        attempt ==
            CASE provider = "openai"    -> generateOpenAIResponse(request, userApiKey, first)
              [] provider = "anthropic" -> generateAnthropicResponse(request, userApiKey, first)
              [] provider = "ollama"    -> generateOllamaResponse(request, model, first)
              [] OTHER                  -> Err(<<"Unsupported provider: ", provider>>, <<>>)
        fallback == generateOllamaResponse(request, model, local)
    IN IF attempt.ok
       THEN attempt
       ELSE IF provider # "ollama"
            THEN IF fallback.ok
                 THEN Ok(fallback.value, attempt.calls \o fallback.calls)
                 ELSE Err(<<"All AI providers failed. Primary: ">> \o attempt.error
                            \o <<", Ollama: ">> \o fallback.error,
                          attempt.calls \o fallback.calls)
            ELSE attempt

\* When the fallback fails too, its error alone is rethrown.
generateResponse_rethrowsOllamaError(request, userApiKey, first, local) ==
    LET provider == Or(request.provider, getDefaultProvider)
        model == Or(request.model, getDefaultModel(provider))
        attempt ==
            CASE provider = "openai"    -> generateOpenAIResponse(request, userApiKey, first)
              [] provider = "anthropic" -> generateAnthropicResponse(request, userApiKey, first)
              [] provider = "ollama"    -> generateOllamaResponse(request, model, first)
              [] OTHER                  -> Err(<<"Unsupported provider: ", provider>>, <<>>)
        fallback == generateOllamaResponse(request, Or(env.OLLAMA_MODEL, "llama2"), local)
    IN IF attempt.ok
       THEN attempt
       ELSE IF provider # "ollama"
            THEN IF fallback.ok
                 THEN Ok(fallback.value, attempt.calls \o fallback.calls)
                 ELSE Err(fallback.error, attempt.calls \o fallback.calls)
            ELSE attempt

\* A failed call to Ollama as the first choice is tried again.
generateResponse_retriesLocal(request, userApiKey, first, local) ==
    LET provider == Or(request.provider, getDefaultProvider)
        model == Or(request.model, getDefaultModel(provider))
        attempt ==
            CASE provider = "openai"    -> generateOpenAIResponse(request, userApiKey, first)
              [] provider = "anthropic" -> generateAnthropicResponse(request, userApiKey, first)
              [] provider = "ollama"    -> generateOllamaResponse(request, model, first)
              [] OTHER                  -> Err(<<"Unsupported provider: ", provider>>, <<>>)
        fallback == generateOllamaResponse(request, Or(env.OLLAMA_MODEL, "llama2"), local)
    IN IF attempt.ok
       THEN attempt
       ELSE IF TRUE
            THEN IF fallback.ok
                 THEN Ok(fallback.value, attempt.calls \o fallback.calls)
                 ELSE Err(<<"All AI providers failed. Primary: ">> \o attempt.error
                            \o <<", Ollama: ">> \o fallback.error,
                          attempt.calls \o fallback.calls)
            ELSE attempt

\* An unsupported provider is an error of the request, with no fallback.
generateResponse_rejectsUnsupported(request, userApiKey, first, local) ==
    LET provider == Or(request.provider, getDefaultProvider)
        model == Or(request.model, getDefaultModel(provider))
        attempt ==
            CASE provider = "openai"    -> generateOpenAIResponse(request, userApiKey, first)
              [] provider = "anthropic" -> generateAnthropicResponse(request, userApiKey, first)
              [] provider = "ollama"    -> generateOllamaResponse(request, model, first)
              [] OTHER                  -> Err(<<"Unsupported provider: ", provider>>, <<>>)
        fallback == generateOllamaResponse(request, Or(env.OLLAMA_MODEL, "llama2"), local)
    IN IF attempt.ok
       THEN attempt
       ELSE IF provider \in {"openai", "anthropic"}
            THEN IF fallback.ok
                 THEN Ok(fallback.value, attempt.calls \o fallback.calls)
                 ELSE Err(<<"All AI providers failed. Primary: ">> \o attempt.error
                            \o <<", Ollama: ">> \o fallback.error,
                          attempt.calls \o fallback.calls)
            ELSE attempt

\* first: outcome of the call to the selected provider; local: outcome of
\* the fallback call to Ollama, if it is made
generateResponse(request, userApiKey, first, local) ==
    LET provider == Or(request.provider, getDefaultProvider)
        model == Or(request.model, getDefaultModel(provider))
        attempt ==
            CASE provider = "openai"    -> generateOpenAIResponse(request, userApiKey, first)
              [] provider = "anthropic" -> generateAnthropicResponse(request, userApiKey, first)
              [] provider = "ollama"    -> generateOllamaResponse(request, model, first)
              [] OTHER                  -> Err(<<"Unsupported provider: ", provider>>, <<>>)
        fallback == generateOllamaResponse(request, Or(env.OLLAMA_MODEL, "llama2"), local)
    IN IF attempt.ok
       THEN attempt
       ELSE IF provider # "ollama"
            THEN IF fallback.ok
                 THEN Ok(fallback.value, attempt.calls \o fallback.calls)
                 ELSE Err(<<"All AI providers failed. Primary: ">> \o attempt.error
                            \o <<", Ollama: ">> \o fallback.error,
                          attempt.calls \o fallback.calls)
            ELSE attempt

(***************************************************************************)
(* Initial state: the process has started, both stores are empty           *)
(***************************************************************************)
Envs ==
    [OPENAI_API_KEY : {"", "sk-env-openai"},
     ANTHROPIC_API_KEY : {"", "sk-env-anthropic"},
     OPENAI_MODEL : {""},
     ANTHROPIC_MODEL : {""},
     OLLAMA_MODEL : {"", "mistral"},
     USE_OLLAMA_FALLBACK : {"", "false"},
     DEFAULT_EMBEDDING_MODEL : {""},
     OLLAMA_EMBEDDING_MODEL : OllamaEmbeddingModels]

NoContext == [present |-> FALSE, items |-> <<>>]

\* the vectors of the collection as ensureCollectionExists creates it
MultiVectors ==
    [openai |-> [size |-> OpenAIDim, distance |-> "Cosine"],
     ollama |-> [size |-> OllamaDim, distance |-> "Cosine"]]

MultiVectorCollection == [exists |-> TRUE, vectors |-> MultiVectors]

\* the server is up: connectQdrant has run
Started ==
    /\ nodes = <<>>
    /\ relations = {}
    /\ points = {}
    /\ collection = MultiVectorCollection
    /\ nextId = 0
    /\ deleted = {}
    /\ writes = 0
    /\ op = "init"
    /\ req = NoValue
    /\ res = [ok |-> TRUE, value |-> NoValue, error |-> <<>>]
    /\ calls = <<>>

InitGateway == env \in Envs /\ Started

Result(r) == [ok |-> r.ok, value |-> r.value, error |-> r.error]

(***************************************************************************)
(* embeddingService.generateEmbedding called on its own                    *)
(***************************************************************************)
Embed ==
    \E hint \in EmbeddingModelHints, p \in EmbOutcomes, s \in EmbOutcomes :
        LET request == [text |-> "text", model |-> hint]
            r == generateEmbedding(request, p, s)
        IN /\ op' = "embed"
           /\ req' = [request |-> request, primary |-> p, secondary |-> s]
           /\ res' = Result(r)
           /\ calls' = r.calls
           /\ UNCHANGED <<env, store>>

(***************************************************************************)
(* The two stores.  db is the record [nodes, relations, points, nextId] of *)
(* the state the service works on; every service method returns its result *)
(* r together with the state db it leaves behind.                          *)
(***************************************************************************)
NodeIds == 1..MaxNodes

DB == [nodes |-> nodes, relations |-> relations, points |-> points, nextId |-> nextId]

Min(a, b) == IF a < b THEN a ELSE b

\* an optional number that is not there (metadata.confidence?: number)
Undefined == -1

\* a || b on numbers: 0 and undefined are falsy
OrNum(a, b) == IF a # 0 /\ a # Undefined THEN a ELSE b

\* the vectors configured for the collection by ensureCollectionExists
NamespaceDim(vectorName) ==
    CASE vectorName = "openai" -> OpenAIDim
      [] vectorName = "ollama" -> OllamaDim

ISqrt(n) == CHOOSE r \in 0..n : r * r = n

\* Cosine similarity in hundredths, as Qdrant scores a point under Distance.Cosine
CosineScore(a, b) ==
    LET dot == a[1] * b[1] + a[2] * b[2]
        norm1 == ISqrt(a[1] * a[1] + a[2] * a[2])
        norm2 == ISqrt(b[1] * b[1] + b[2] * b[2])
    IN IF norm1 = 0 \/ norm2 = 0 THEN 0 ELSE (dot * 100) \div (norm1 * norm2)

\* qdrantClient.search: the points of the named vector that pass the filter
\* and reach score_threshold, best first, at most limit of them.  Which of
\* several equally scored points comes first, or is cut off, is the store's
\* choice: the operator is the set of the answers the store may give.
QdrantHits(db, vectorName, vector, threshold, userId) ==
    {pt \in db.points :
        /\ pt.vectorName = vectorName
        /\ pt.payload.userId = userId
        /\ CosineScore(vector.v, pt.vector.v) >= threshold}

QdrantSearch(db, vectorName, vector, limit, threshold, userId) ==
    LET hits == QdrantHits(db, vectorName, vector, threshold, userId)
        m == Min(limit, Cardinality(hits))
        score(pt) == CosineScore(vector.v, pt.vector.v)
    IN {[i \in 1..m |-> [id |-> f[i].id, score |-> score(f[i]), payload |-> f[i].payload]] :
          f \in {g \in [1..m -> hits] :
                   /\ \A i, j \in 1..m : i < j => (g[i] # g[j] /\ score(g[i]) >= score(g[j]))
                   /\ \A pt \in hits : (\A i \in 1..m : g[i] # pt)
                                          => \A i \in 1..m : score(pt) <= score(g[i])}}

\* uuidv4(): a fresh value on every call.  The uuid drawn for the point of
\* the node that addNode has just saved is named by that node's _id; FreshUuid
\* names a uuid drawn anywhere else, which is the id of no point.
FreshUuid == 0
convertObjectIdToUUID(objectId, drawn) == drawn

ToObject(db, id) ==
    [_id |-> id,
     userId |-> db.nodes[id].userId,
     title |-> db.nodes[id].title,
     content |-> db.nodes[id].content,
     type |-> db.nodes[id].type,
     confidence |-> db.nodes[id].confidence,
     tags |-> db.nodes[id].tags,
     embedding |-> db.nodes[id].embedding,
     connections |-> db.nodes[id].connections]

\* $addToSet on an array
AddToSet(arr, x) == IF \E i \in DOMAIN arr : arr[i] = x THEN arr ELSE Append(arr, x)

\* KnowledgeNodeModel.find({_id: {$in: ids}, userId}): in natural (_id) order
RECURSIVE Ascending(_)
Ascending(S) ==
    IF S = {} THEN <<>>
    ELSE LET x == CHOOSE y \in S : \A z \in S : y <= z
         IN <<x>> \o Ascending(S \ {x})

FindNodes(db, ids, userId) ==
    Ascending({n \in DOMAIN db.nodes : n \in ids /\ db.nodes[n].userId = userId})

\* score of a node in the sort of searchSimilarNodes:
\* searchResult.find(r => r.payload.mongoId === id)?.score || 0
ScoreIn(searchResult, id) ==
    IF \E i \in DOMAIN searchResult : searchResult[i].payload.mongoId = id
    THEN searchResult[CHOOSE i \in DOMAIN searchResult :
                        /\ searchResult[i].payload.mongoId = id
                        /\ \A j \in 1..(i - 1) : searchResult[j].payload.mongoId # id].score
    ELSE 0

\* Array.prototype.sort((a, b) => scoreB - scoreA): stable, best score first
RECURSIVE InsertByScore(_, _, _)
InsertByScore(sorted, x, searchResult) ==
    IF sorted = <<>> THEN <<x>>
    ELSE IF ScoreIn(searchResult, x) - ScoreIn(searchResult, Head(sorted)) > 0
         THEN <<x>> \o sorted
         ELSE <<Head(sorted)>> \o InsertByScore(Tail(sorted), x, searchResult)

\* The nodes stay in the order MongoDB returned them.
SortByScore_unsorted(ids, searchResult) == ids

RECURSIVE SortByScore(_, _)
SortByScore(ids, searchResult) ==
    IF ids = <<>> THEN <<>>
    ELSE InsertByScore(SortByScore(SubSeq(ids, 1, Len(ids) - 1), searchResult),
                       ids[Len(ids)], searchResult)

(***************************************************************************)
(* KnowledgeGraphService                                                   *)
(***************************************************************************)
\* The node is taken out of the document store when the upsert fails.
addNode_rollsBack(db, node, p, s, upsertOk) ==
    LET e == generateEmbedding([text |-> node.title \o <<" ">> \o node.content, model |-> ""], p, s)
        id == db.nextId + 1
        savedNode == [userId |-> node.userId, title |-> node.title, content |-> node.content,
                      type |-> node.type, confidence |-> node.confidence,
                      tags |-> node.tags,
                      embedding |-> e.value.embedding, connections |-> node.connections]
        saved == [db EXCEPT !.nodes = db.nodes @@ (id :> savedNode), !.nextId = id]
        vectorName == getVectorName(e.value.model)
        qdrantId == convertObjectIdToUUID(id, id)
        point == [id |-> qdrantId, vectorName |-> vectorName, vector |-> e.value.embedding,
                  payload |-> [mongoId |-> id, userId |-> node.userId,
                               embeddingModel |-> e.value.model]]
        save == [provider |-> "mongodb", userId |-> node.userId, ids |-> {id}]
        upsert == [provider |-> "qdrant", vectorName |-> vectorName,
                   vector |-> e.value.embedding, userId |-> node.userId, ids |-> {id}]
    IN IF ~e.ok
       THEN [r |-> Err(<<"Failed to add knowledge node">>, e.calls), db |-> db]
       ELSE IF ~upsertOk \/ e.value.embedding.dim # NamespaceDim(vectorName)
            THEN [r |-> Err(<<"Failed to add knowledge node">>, e.calls \o <<save, upsert>>),
                  db |-> db]
            ELSE [r |-> Ok(ToObject(saved, id), e.calls \o <<save, upsert>>),
                  db |-> [saved EXCEPT !.points = saved.points \cup {point}]]

addNode(db, node, p, s, upsertOk) ==
    LET e == generateEmbedding([text |-> node.title \o <<" ">> \o node.content, model |-> ""], p, s)
        id == db.nextId + 1
        savedNode == [userId |-> node.userId, title |-> node.title, content |-> node.content,
                      type |-> node.type, confidence |-> node.confidence,
                      tags |-> node.tags,
                      embedding |-> e.value.embedding, connections |-> node.connections]
        saved == [db EXCEPT !.nodes = db.nodes @@ (id :> savedNode), !.nextId = id]
        vectorName == getVectorName(e.value.model)
        qdrantId == convertObjectIdToUUID(id, id)
        point == [id |-> qdrantId, vectorName |-> vectorName, vector |-> e.value.embedding,
                  payload |-> [mongoId |-> id, userId |-> node.userId,
                               embeddingModel |-> e.value.model]]
        save == [provider |-> "mongodb", userId |-> node.userId, ids |-> {id}]
        upsert == [provider |-> "qdrant", vectorName |-> vectorName,
                   vector |-> e.value.embedding, userId |-> node.userId, ids |-> {id}]
    IN IF ~e.ok
       THEN [r |-> Err(<<"Failed to add knowledge node">>, e.calls), db |-> db]
       ELSE IF ~upsertOk \/ e.value.embedding.dim # NamespaceDim(vectorName)
            THEN [r |-> Err(<<"Failed to add knowledge node">>, e.calls \o <<save, upsert>>),
                  db |-> saved]
            ELSE [r |-> Ok(ToObject(saved, id), e.calls \o <<save, upsert>>),
                  db |-> [saved EXCEPT !.points = saved.points \cup {point}]]

\* The connections of both nodes are updated before the relation is saved.
addRelation_updatesFirst(db, relation) ==
    LET duplicate == \E x \in db.relations :
                        /\ x.sourceNodeId = relation.sourceNodeId
                        /\ x.targetNodeId = relation.targetNodeId
        src == relation.sourceNodeId
        tgt == relation.targetNodeId
        nodes1 == IF src \in DOMAIN db.nodes
                  THEN [db.nodes EXCEPT ![src].connections = AddToSet(@, tgt)]
                  ELSE db.nodes
        nodes2 == IF tgt \in DOMAIN nodes1
                  THEN [nodes1 EXCEPT ![tgt].connections = AddToSet(@, src)]
                  ELSE nodes1
    IN IF duplicate
       THEN [r |-> Err(<<"Failed to add knowledge relation">>, <<>>),
             db |-> [db EXCEPT !.nodes = nodes2]]
       ELSE [r |-> Ok(relation, <<>>),
             db |-> [db EXCEPT !.relations = db.relations \cup {relation}, !.nodes = nodes2]]

addRelation(db, relation) ==
    LET duplicate == \E x \in db.relations :
                        /\ x.sourceNodeId = relation.sourceNodeId
                        /\ x.targetNodeId = relation.targetNodeId
        src == relation.sourceNodeId
        tgt == relation.targetNodeId
        nodes1 == IF src \in DOMAIN db.nodes
                  THEN [db.nodes EXCEPT ![src].connections = AddToSet(@, tgt)]
                  ELSE db.nodes
        nodes2 == IF tgt \in DOMAIN nodes1
                  THEN [nodes1 EXCEPT ![tgt].connections = AddToSet(@, src)]
                  ELSE nodes1
    IN IF duplicate
       THEN [r |-> Err(<<"Failed to add knowledge relation">>, <<>>), db |-> db]
       ELSE [r |-> Ok(relation, <<>>),
             db |-> [db EXCEPT !.relations = db.relations \cup {relation}, !.nodes = nodes2]]

\* the outcomes of the reads of one search: qdrantClient.search and
\* KnowledgeNodeModel.find answer (TRUE) or throw
Answering == [search |-> TRUE, find |-> TRUE]

\* The set of the results the call may have (one per answer of Qdrant).
searchSimilarNodes_anyTenant(db, query, userId, limit, threshold, p, s, q) ==
    LET e == generateEmbedding([text |-> query, model |-> ""], p, s)
        vectorName == getVectorName(e.value.model)
        answers == UNION {QdrantSearch(db, vectorName, e.value.embedding, limit, threshold, u) :
                            u \in Tenants}
        search(searchResult) ==
            [provider |-> "qdrant", vectorName |-> vectorName, vector |-> e.value.embedding,
             limit |-> limit, threshold |-> threshold, userId |-> userId, result |-> searchResult]
        hydrate(searchResult) ==
            LET mongoIds == {searchResult[i].payload.mongoId : i \in DOMAIN searchResult}
                found == Ascending({n \in DOMAIN db.nodes : n \in mongoIds})
                sortedNodes == SortByScore(found, searchResult)
            IN [i \in 1..Len(sortedNodes) |-> ToObject(db, sortedNodes[i])]
        find(searchResult) ==
            [provider |-> "mongodb", userId |-> userId,
             ids |-> {searchResult[i].payload.mongoId : i \in DOMAIN searchResult}]
    IN IF ~e.ok \/ e.value.embedding.dim # NamespaceDim(vectorName)
       THEN {Err(<<"Failed to search similar nodes">>, e.calls)}
       ELSE IF ~q.search
            THEN {Err(<<"Failed to search similar nodes">>, e.calls \o <<search(<<>>)>>)}
            ELSE IF ~q.find
                 THEN {Err(<<"Failed to search similar nodes">>,
                           e.calls \o <<search(searchResult), find(searchResult)>>) :
                          searchResult \in answers}
                 ELSE {Ok(hydrate(searchResult),
                          e.calls \o <<search(searchResult), find(searchResult)>>) :
                          searchResult \in answers}

searchSimilarNodes(db, query, userId, limit, threshold, p, s, q) ==
    LET e == generateEmbedding([text |-> query, model |-> ""], p, s)
        vectorName == getVectorName(e.value.model)
        answers == QdrantSearch(db, vectorName, e.value.embedding, limit, threshold, userId)
        search(searchResult) ==
            [provider |-> "qdrant", vectorName |-> vectorName, vector |-> e.value.embedding,
             limit |-> limit, threshold |-> threshold, userId |-> userId, result |-> searchResult]
        hydrate(searchResult) ==
            LET mongoIds == {searchResult[i].payload.mongoId : i \in DOMAIN searchResult}
                found == FindNodes(db, mongoIds, userId)
                sortedNodes == SortByScore(found, searchResult)
            IN [i \in 1..Len(sortedNodes) |-> ToObject(db, sortedNodes[i])]
        find(searchResult) ==
            [provider |-> "mongodb", userId |-> userId,
             ids |-> {searchResult[i].payload.mongoId : i \in DOMAIN searchResult}]
    IN IF ~e.ok \/ e.value.embedding.dim # NamespaceDim(vectorName)
       THEN {Err(<<"Failed to search similar nodes">>, e.calls)}
       ELSE IF ~q.search
            THEN {Err(<<"Failed to search similar nodes">>, e.calls \o <<search(<<>>)>>)}
            ELSE IF ~q.find
                 THEN {Err(<<"Failed to search similar nodes">>,
                           e.calls \o <<search(searchResult), find(searchResult)>>) :
                          searchResult \in answers}
                 ELSE {Ok(hydrate(searchResult),
                          e.calls \o <<search(searchResult), find(searchResult)>>) :
                          searchResult \in answers}

Passage(node) ==
    <<"Title: ">> \o node.title \o <<"\nContent: ">> \o node.content \o <<"\nType: ", node.type>>

RECURSIVE SumConfidence(_)
SumConfidence(ns) ==
    IF ns = <<>> THEN 0 ELSE OrNum(Head(ns).confidence, 50) + SumConfidence(Tail(ns))

\* The passages are given last source first.
performRAGQuery_reversedContext(db, query, p, s, q, first, local) ==
    LET found == searchSimilarNodes(db, query.query, query.userId,
                                    OrNum(query.maxResults, 5), OrNum(query.threshold, 70), p, s, q)
        answer(sr) ==
            LET relevantNodes == sr.value
                context == [i \in 1..Len(relevantNodes) |->
                                Passage(relevantNodes[Len(relevantNodes) + 1 - i])]
                chatRequest == [message |-> query.query, model |-> query.model,
                                provider |-> query.provider,
                                context |-> [present |-> TRUE, items |-> context],
                                customKeyId |-> query.customKeyId, apiKey |-> query.apiKey]
                ai == generateResponse(chatRequest, query.apiKey, first, local)
                confidence == IF Len(relevantNodes) > 0
                              THEN [num |-> SumConfidence(relevantNodes),
                                    den |-> 100 * Len(relevantNodes)]
                              ELSE [num |-> 50, den |-> 100]
            IN IF ~ai.ok
               THEN Err(<<"Failed to perform RAG query">>, sr.calls \o ai.calls)
               ELSE Ok([answer |-> ai.value.message, sources |-> relevantNodes,
                        confidence |-> confidence,
                        metadata |-> [model |-> ai.value.metadata.model,
                                      provider |-> ai.value.metadata.provider,
                                      tokens |-> ai.value.metadata.tokens]],
                       sr.calls \o ai.calls)
    IN {IF ~sr.ok THEN Err(<<"Failed to perform RAG query">>, sr.calls) ELSE answer(sr) :
            sr \in found}

\* confidence is the fraction num / den
performRAGQuery(db, query, p, s, q, first, local) ==
    LET found == searchSimilarNodes(db, query.query, query.userId,
                                    OrNum(query.maxResults, 5), OrNum(query.threshold, 70), p, s, q)
        answer(sr) ==
            LET relevantNodes == sr.value
                context == [i \in 1..Len(relevantNodes) |-> Passage(relevantNodes[i])]
                chatRequest == [message |-> query.query, model |-> query.model,
                                provider |-> query.provider,
                                context |-> [present |-> TRUE, items |-> context],
                                customKeyId |-> query.customKeyId, apiKey |-> query.apiKey]
                ai == generateResponse(chatRequest, query.apiKey, first, local)
                confidence == IF Len(relevantNodes) > 0
                              THEN [num |-> SumConfidence(relevantNodes),
                                    den |-> 100 * Len(relevantNodes)]
                              ELSE [num |-> 50, den |-> 100]
            IN IF ~ai.ok
               THEN Err(<<"Failed to perform RAG query">>, sr.calls \o ai.calls)
               ELSE Ok([answer |-> ai.value.message, sources |-> relevantNodes,
                        confidence |-> confidence,
                        metadata |-> [model |-> ai.value.metadata.model,
                                      provider |-> ai.value.metadata.provider,
                                      tokens |-> ai.value.metadata.tokens]],
                       sr.calls \o ai.calls)
    IN {IF ~sr.ok THEN Err(<<"Failed to perform RAG query">>, sr.calls) ELSE answer(sr) :
            sr \in found}

\* newest first: createdAt grows with _id
RECURSIVE Descending(_)
Descending(S) ==
    IF S = {} THEN <<>>
    ELSE LET x == CHOOSE y \in S : \A z \in S : y >= z
         IN <<x>> \o Descending(S \ {x})

getKnowledgeGraph(db, userId, limit) ==
    LET all == Descending({n \in DOMAIN db.nodes : db.nodes[n].userId = userId})
        ids == SubSeq(all, 1, Min(limit, Len(all)))
        nodeIds == {ids[i] : i \in DOMAIN ids}
    IN Ok([nodes |-> [i \in 1..Len(ids) |-> ToObject(db, ids[i])],
           relations |-> {x \in db.relations :
                            /\ x.userId = userId
                            /\ (x.sourceNodeId \in nodeIds \/ x.targetNodeId \in nodeIds)}],
          <<>>)

deleteNode_keepsNode(db, nodeId, userId, qdrantOk) ==
    LET qdrantId == convertObjectIdToUUID(nodeId, FreshUuid)
    IN IF ~qdrantOk
       THEN [r |-> Err(<<"Failed to delete knowledge node">>, <<>>), db |-> db]
       ELSE [r |-> Ok(NoValue, <<>>),
             db |-> [db EXCEPT
                       !.points = {pt \in db.points : pt.id # qdrantId},
                       !.relations = {x \in db.relations :
                            ~(x.userId = userId /\ (x.sourceNodeId = nodeId
                                                      \/ x.targetNodeId = nodeId))}]]

deleteNode(db, nodeId, userId, qdrantOk) ==
    LET kept == {n \in DOMAIN db.nodes : ~(n = nodeId /\ db.nodes[n].userId = userId)}
        db1 == [db EXCEPT !.nodes = [n \in kept |-> db.nodes[n]]]
        qdrantId == convertObjectIdToUUID(nodeId, FreshUuid)
    IN IF ~qdrantOk
       THEN [r |-> Err(<<"Failed to delete knowledge node">>, <<>>), db |-> db1]
       ELSE [r |-> Ok(NoValue, <<>>),
             db |-> [db1 EXCEPT
                       !.points = {pt \in db1.points : pt.id # qdrantId},
                       !.relations = {x \in db1.relations :
                            ~(x.userId = userId /\ (x.sourceNodeId = nodeId
                                                      \/ x.targetNodeId = nodeId))}]]

(***************************************************************************)
(* processDocument                                                         *)
(***************************************************************************)
MinSentenceLength == 10
MinNodeLength == 20
TitleLength == 100
SimilarityThreshold == 70

IsTerminator(c) == c \in {".", "!", "?"}
IsWhitespace(c) == c \in {" ", "\n", "\t"}

\* content.split(/[.!?]+/): a piece starts at the beginning of the text and
\* after every run of terminators, and runs up to the next terminator
SplitSentences(content) ==
    LET n == Len(content)
        starts == {st \in 1..(n + 1) :
                     \/ st = 1
                     \/ /\ IsTerminator(content[st - 1])
                        /\ (st = n + 1 \/ ~IsTerminator(content[st]))}
        end(st) == CHOOSE en \in (st - 1)..n :
                      /\ en = n \/ IsTerminator(content[en + 1])
                      /\ \A k \in st..en : ~IsTerminator(content[k])
        order == Ascending(starts)
    IN [k \in 1..Len(order) |-> SubSeq(content, order[k], end(order[k]))]

\* String.prototype.trim
RECURSIVE TrimStart(_)
TrimStart(t) == IF t # <<>> /\ IsWhitespace(Head(t)) THEN TrimStart(Tail(t)) ELSE t

RECURSIVE TrimEnd(_)
TrimEnd(t) ==
    IF t # <<>> /\ IsWhitespace(t[Len(t)]) THEN TrimEnd(SubSeq(t, 1, Len(t) - 1)) ELSE t

Trim(t) == TrimEnd(TrimStart(t))

\* A node is created for every sentence the filter lets through.
RetainedSentences_keepsShort(content) ==
    LET long(t) == Len(Trim(t)) > MinSentenceLength
    IN SelectSeq(SplitSentences(content), long)

\* the sentences a node is created for, in document order
RetainedSentences(content) ==
    LET long(t) == Len(Trim(t)) > MinSentenceLength
        kept(t) == ~(Len(Trim(t)) < MinNodeLength)
    IN SelectSeq(SelectSeq(SplitSentences(content), long), kept)

\* The dot product is not divided by the norms.
calculateSimilarity_unnormalised(embedding1, embedding2) ==
    LET a == embedding1.v
        b == embedding2.v
        dotProduct == a[1] * b[1] + a[2] * b[2]
    IN IF embedding1.dim # embedding2.dim
       THEN Err(<<"Embeddings must have the same length">>, <<>>)
       ELSE Ok(dotProduct, <<>>)

calculateSimilarity(embedding1, embedding2) ==
    LET a == embedding1.v
        b == embedding2.v
        dotProduct == a[1] * b[1] + a[2] * b[2]
        norm1 == ISqrt(a[1] * a[1] + a[2] * a[2])
        norm2 == ISqrt(b[1] * b[1] + b[2] * b[2])
    IN IF embedding1.dim # embedding2.dim
       THEN Err(<<"Embeddings must have the same length">>, <<>>)
       ELSE IF norm1 = 0 \/ norm2 = 0
            THEN Ok(0, <<>>)
            ELSE Ok((dotProduct * 100) \div (norm1 * norm2), <<>>)

\* one pass of the loop over the sentences: a is what addNode returned
NodeCreated(acc, a) ==
    [db |-> a.db,
     nodes |-> IF a.r.ok THEN Append(acc.nodes, a.r.value) ELSE acc.nodes,
     calls |-> acc.calls \o a.r.calls,
     failed |-> ~a.r.ok]

\* the loop over the sentences: acc is [db, nodes, calls, failed]
RECURSIVE CreateNodes(_, _, _, _, _)
CreateNodes(acc, sentences, userId, source, outs) ==
    IF sentences = <<>> \/ acc.failed THEN acc
    ELSE LET sentence == Head(sentences)
         IN CreateNodes(
                NodeCreated(acc,
                    addNode(acc.db,
                            [userId |-> userId,
                             title |-> SubSeq(sentence, 1, Min(TitleLength, Len(sentence)))
                                       \o <<"...">>,
                             content |-> Trim(sentence),
                             type |-> "concept",
                             confidence |-> 80,
                             tags |-> <<"document">>,
                             connections |-> <<>>],
                            Head(outs).p, Head(outs).s, Head(outs).upsertOk)),
                Tail(sentences), userId, source, Tail(outs))

\* the pairs (i, j), i < j, in the order the two loops visit them
PairsInOrder(n) ==
    LET F[k \in 0..(n * n)] ==
            IF k = 0 THEN <<>>
            ELSE LET i == ((k - 1) \div n) + 1
                     j == ((k - 1) % n) + 1
                 IN IF i < j THEN Append(F[k - 1], <<i, j>>) ELSE F[k - 1]
    IN F[n * n]

\* one pass of the loop over the pairs: a is what addRelation returned
RelationCreated(acc, a) ==
    [db |-> a.db,
     relations |-> IF a.r.ok THEN Append(acc.relations, a.r.value) ELSE acc.relations,
     failed |-> ~a.r.ok]

\* the loop over the pairs: acc is [db, relations, failed]
RECURSIVE CreateRelations(_, _, _, _)
CreateRelations(acc, pairs, created, userId) ==
    IF pairs = <<>> \/ acc.failed THEN acc
    ELSE LET i == Head(pairs)[1]
             j == Head(pairs)[2]
             similarity == calculateSimilarity(created[i].embedding, created[j].embedding)
         IN IF ~similarity.ok
            THEN [acc EXCEPT !.failed = TRUE]
            ELSE IF similarity.value > SimilarityThreshold
                 THEN CreateRelations(
                          RelationCreated(acc,
                              addRelation(acc.db,
                                          [userId |-> userId,
                                           sourceNodeId |-> created[i]._id,
                                           targetNodeId |-> created[j]._id,
                                           relationType |-> "similar",
                                           strength |-> similarity.value])),
                          Tail(pairs), created, userId)
                 ELSE CreateRelations(acc, Tail(pairs), created, userId)

\* what processDocument returns: n is the state after the loop over the
\* sentences, x the state after the loop over the pairs
DocumentProcessed(n, x) ==
    IF n.failed
    THEN [r |-> Err(<<"Failed to process document">>, n.calls), db |-> n.db]
    ELSE IF x.failed
         THEN [r |-> Err(<<"Failed to process document">>, n.calls), db |-> x.db]
         ELSE [r |-> Ok([nodes |-> n.nodes, relations |-> x.relations,
                         summary |-> <<"Processed document with ", Len(n.nodes),
                                       " concepts and ", Len(x.relations), " relations">>],
                        n.calls),
               db |-> x.db]

\* the second half of processDocument: the relations among the nodes created
RelateNodes(n, userId) ==
    DocumentProcessed(n,
        CreateRelations([db |-> n.db, relations |-> <<>>, failed |-> FALSE],
                        PairsInOrder(Len(n.nodes)), n.nodes, userId))

processDocument(db, content, userId, source, outs) ==
    RelateNodes(CreateNodes([db |-> db, nodes |-> <<>>, calls |-> <<>>, failed |-> FALSE],
                            RetainedSentences(content), userId, source, outs),
                userId)

(***************************************************************************)
(* Requests                                                                *)
(***************************************************************************)
\* the tenant whose reads are followed; the other tenants only write
Readers == {"A"}
Limits == {1, 2}
Thresholds == {0, 60}
RagMaxResults == {0, 1}
ManualConfidences == {90}
QueryDir == <<5, 0>>

Doc1 == <<"A","I"," ","i","s"," ","i","n","t","e","l","l","i","g","e","n","c","e"," ","i","n"," ","m","a","c","h","i","n","e","s","."," ","M","L"," ","i","s"," ","a"," ","s","u","b","s","e","t"," ","o","f"," ","A","I"," ","t","h","a","t"," ","l","e","a","r","n","s"," ","f","r","o","m"," ","d","a","t","a",".">>
Documents == {Doc1}

EmbNotCalled == [ok |-> FALSE, cause |-> "not called", v |-> <<0, 0>>, tokens |-> 0]
GenNotCalled == [ok |-> FALSE, cause |-> "not called", answer |-> "", tokens |-> 0]

\* the outcomes of the embedding calls of one addNode or one query; the
\* secondary outcome is drawn only when the secondary provider may be called
EmbeddingOutcomes(primaries) ==
    {[p |-> p, s |-> s] : p \in {x \in primaries : x.ok}, s \in {EmbNotCalled}}
    \cup {[p |-> p, s |-> s] : p \in {x \in primaries : ~x.ok}, s \in EmbOutcomes}

QueryEmbOutcomes ==
    {o \in EmbeddingOutcomes({x \in EmbOutcomes : x.ok => x.v = QueryDir}) :
        o.s.ok => o.s.v = QueryDir}

\* the outcomes of the calls of one addNode: the embedding calls and the
\* upsert of the point (drawn TRUE when the upsert is not reached)
NodeOutcomes ==
    {[p |-> o.p, s |-> o.s, upsertOk |-> TRUE] :
        o \in {x \in EmbeddingOutcomes(EmbOutcomes) : x.p.ok \/ ~x.s.ok \/ x.s.v = QueryDir}}
    \cup {[p |-> o.p, s |-> o.s, upsertOk |-> FALSE] :
        o \in {x \in EmbeddingOutcomes(EmbOutcomes) : x.p.ok /\ x.p.v = QueryDir}}

GenerationOutcomes ==
    {[first |-> f, local |-> l] : f \in {x \in GenOutcomes : x.ok}, l \in {GenNotCalled}}
    \cup {[first |-> f, local |-> l] : f \in {x \in GenOutcomes : x.cause = "quota"},
                                       l \in {x \in GenOutcomes : x.cause # "auth"}}

\* the outcomes of the calls of one RAG query; those of the generation calls
\* are drawn only when the query embedding is there
RagOutcomes ==
    {[o |-> o, g |-> g] : o \in {x \in QueryEmbOutcomes : x.p.ok \/ x.s.ok},
                          g \in GenerationOutcomes}
    \cup {[o |-> o, g |-> g] : o \in {x \in QueryEmbOutcomes : ~x.p.ok /\ ~x.s.ok},
                               g \in {[first |-> GenNotCalled, local |-> GenNotCalled]}}

\* the deployment the knowledge graph is explored under: the README's
\* configuration, with an OpenAI key and every model left at its default
GraphEnvs ==
    {e \in Envs : /\ e.OPENAI_API_KEY # "" /\ e.ANTHROPIC_API_KEY = ""
                  /\ e.OLLAMA_MODEL = "" /\ e.USE_OLLAMA_FALLBACK = ""
                  /\ e.OLLAMA_EMBEDDING_MODEL = ""}

Init == env \in GraphEnvs /\ Started

\* A read leaves the stores as they are, so the stores a behaviour reaches
\* are those of its writes alone: a behaviour is followed up to its first read.
Observed == op \in {"search", "rag", "graph"}

Writable == ~Observed /\ writes < MaxWrites

SetDB(db) ==
    /\ writes' = writes + 1
    /\ nodes' = db.nodes
    /\ relations' = db.relations
    /\ points' = db.points
    /\ collection' = collection
    /\ nextId' = db.nextId

(***************************************************************************)
(* ChatController.sendMessage.  body is the request body with the caller's *)
(* userId; o and g are the outcomes of the embedding and generation calls. *)
(* The operator is the set of the responses the handler may build; a       *)
(* service that throws is a result with ok = FALSE and the service's error.*)
(***************************************************************************)
\* The knowledge graph is queried whatever useRAG says.
sendMessage_ignoresUseRAG(db, body, useRAG, o, g) ==
    performRAGQuery(db,
                    [query |-> body.message, userId |-> body.userId, model |-> body.model,
                     provider |-> body.provider, maxResults |-> 5, threshold |-> 70,
                     customKeyId |-> body.customKeyId, apiKey |-> body.apiKey],
                    o.p, o.s, Answering, g.first, g.local)

sendMessage(db, body, useRAG, o, g) ==
    LET ragQuery == [query |-> body.message, userId |-> body.userId, model |-> body.model,
                     provider |-> body.provider, maxResults |-> 5, threshold |-> 70,
                     customKeyId |-> body.customKeyId, apiKey |-> body.apiKey]
        chatRequest == [message |-> body.message, model |-> body.model,
                        provider |-> body.provider, context |-> NoContext,
                        customKeyId |-> body.customKeyId, apiKey |-> body.apiKey]
        aiResponse == generateResponse(chatRequest, body.apiKey, g.first, g.local)
    IN IF useRAG
       THEN performRAGQuery(db, ragQuery, o.p, o.s, Answering, g.first, g.local)
       ELSE {IF aiResponse.ok
             THEN Ok([answer |-> aiResponse.value.message,
                      sources |-> <<>>,
                      confidence |-> [num |-> 100, den |-> 100],
                      metadata |-> aiResponse.value.metadata],
                     aiResponse.calls)
             ELSE Err(aiResponse.error, aiResponse.calls)}

\* useRAG = false
SendMessageDirect ==
    \E provider \in ProviderPins, model \in ChatModels, ck \in CustomKeyIds,
       first \in GenOutcomes, local \in GenOutcomes :
        LET apiKey == IF ck = "" THEN "" ELSE UserApiKeys[ck].key
            body == [message |-> "message", userId |-> "A", model |-> model,
                     provider |-> provider, customKeyId |-> ck, apiKey |-> apiKey]
        IN \E r \in sendMessage(DB, body, FALSE, [p |-> EmbNotCalled, s |-> EmbNotCalled],
                                 [first |-> first, local |-> local]) :
           /\ op' = "generate"
           /\ req' = [request |-> body, useRAG |-> FALSE, first |-> first, local |-> local]
           /\ res' = Result(r)
           /\ calls' = r.calls
           /\ UNCHANGED <<env, store>>

\* useRAG = true (the default), with the process-level provider
SendMessageRAG ==
    \E x \in RagOutcomes :
        LET body == [message |-> "message", userId |-> "A", model |-> "", provider |-> "",
                     customKeyId |-> "", apiKey |-> ""]
        IN \E r \in sendMessage(DB, body, TRUE, x.o, x.g) :
           /\ op' = "rag"
           /\ req' = [request |-> body, useRAG |-> TRUE, userId |-> body.userId,
                      maxResults |-> 5, threshold |-> 70, outcome |-> x.o, generation |-> x.g]
           /\ res' = Result(r)
           /\ calls' = r.calls
           /\ UNCHANGED <<env, store>>

(***************************************************************************)
(* aiProviderService.generateResponse called with a context list           *)
(***************************************************************************)
Passage1 == <<"Title: ", "T1", "\nContent: ", "C1", "\nType: ", "entity">>
Passage2 == <<"Title: ", "T2", "\nContent: ", "C2", "\nType: ", "concept">>

\* no context, an empty list, one passage, several passages
Contexts ==
    {NoContext} \cup {[present |-> TRUE, items |-> items] :
                        items \in {<<>>, <<Passage1>>, <<Passage1, Passage2>>,
                                   <<Passage2, Passage1>>}}

GenerateResponse ==
    \E provider \in ProviderPins \ {""}, context \in Contexts,
       first \in GenOutcomes, local \in GenOutcomes :
        LET request == [message |-> "message", model |-> "", provider |-> provider,
                        context |-> context, customKeyId |-> "", apiKey |-> ""]
            r == generateResponse(request, "", first, local)
        IN /\ op' = "generateResponse"
           /\ req' = [request |-> request, first |-> first, local |-> local]
           /\ res' = Result(r)
           /\ calls' = r.calls
           /\ UNCHANGED <<env, store>>

NextGateway ==
    \/ Embed
    \/ SendMessageDirect
    \/ SendMessageRAG
    \/ GenerateResponse

SpecGateway == InitGateway /\ [][NextGateway]_vars

(***************************************************************************)
(* Operations of the knowledge graph                                       *)
(***************************************************************************)
AddNode ==
    /\ Writable
    /\ nextId < MaxNodes
    /\ \E userId \in Tenants, confidence \in ManualConfidences, o \in NodeOutcomes :
        LET node == [userId |-> userId, title |-> <<"T">>, content |-> <<"C">>,
                     type |-> "entity", confidence |-> confidence, tags |-> <<>>,
                     connections |-> <<>>]
            a == addNode(DB, node, o.p, o.s, o.upsertOk)
        IN /\ SetDB(a.db)
           /\ op' = "addNode"
           /\ req' = [userId |-> userId, outcome |-> o]
           /\ res' = Result(a.r)
           /\ calls' = a.r.calls
           /\ UNCHANGED <<env, deleted>>

AddRelation ==
    /\ Writable
    /\ \E userId \in Tenants, src \in NodeIds, tgt \in NodeIds :
        LET relation == [userId |-> userId, sourceNodeId |-> src, targetNodeId |-> tgt,
                         relationType |-> "related", strength |-> 50]
            a == addRelation(DB, relation)
        IN /\ SetDB(a.db)
           /\ op' = "addRelation"
           /\ req' = [relation |-> relation]
           /\ res' = Result(a.r)
           /\ calls' = a.r.calls
           /\ UNCHANGED <<env, deleted>>

SearchNodes ==
    /\ ~Observed
    /\ \E userId \in Readers, limit \in Limits, threshold \in Thresholds, o \in QueryEmbOutcomes :
        \E r \in searchSimilarNodes(DB, "query", userId, limit, threshold, o.p, o.s, Answering) :
           /\ op' = "search"
           /\ req' = [userId |-> userId, limit |-> limit, threshold |-> threshold, outcome |-> o]
           /\ res' = Result(r)
           /\ calls' = r.calls
           /\ UNCHANGED <<env, store>>

RAGQuery ==
    /\ ~Observed
    /\ \E userId \in Readers, maxResults \in RagMaxResults, threshold \in Thresholds,
       x \in RagOutcomes :
        LET o == x.o
            g == x.g
            query == [query |-> "query", userId |-> userId, model |-> "", provider |-> "",
                      maxResults |-> maxResults, threshold |-> threshold,
                      customKeyId |-> "", apiKey |-> ""]
        IN \E r \in performRAGQuery(DB, query, o.p, o.s, Answering, g.first, g.local) :
           /\ op' = "rag"
           /\ req' = [userId |-> userId, maxResults |-> maxResults, threshold |-> threshold,
                      outcome |-> o, generation |-> g]
           /\ res' = Result(r)
           /\ calls' = r.calls
           /\ UNCHANGED <<env, store>>

GetKnowledgeGraph ==
    /\ ~Observed
    /\ \E userId \in Readers, limit \in Limits :
        LET r == getKnowledgeGraph(DB, userId, limit)
        IN /\ op' = "graph"
           /\ req' = [userId |-> userId, limit |-> limit]
           /\ res' = Result(r)
           /\ calls' = r.calls
           /\ UNCHANGED <<env, store>>

DeleteNode ==
    /\ Writable
    /\ \E nodeId \in NodeIds, userId \in Tenants, qdrantOk \in BOOLEAN :
        LET a == deleteNode(DB, nodeId, userId, qdrantOk)
            owned == nodeId \in DOMAIN nodes /\ nodes[nodeId].userId = userId
        IN /\ SetDB(a.db)
           /\ deleted' = IF a.r.ok /\ owned THEN deleted \cup {nodeId} ELSE deleted
           /\ op' = "deleteNode"
           /\ req' = [nodeId |-> nodeId, userId |-> userId, qdrantOk |-> qdrantOk]
           /\ res' = Result(a.r)
           /\ calls' = a.r.calls
           /\ UNCHANGED env

UploadDocument ==
    /\ Writable
    /\ \E content \in Documents, userId \in Tenants :
        LET n == Len(RetainedSentences(content))
        IN /\ nextId + n <= MaxNodes
           /\ \E outs \in [1..n -> NodeOutcomes] :
                LET a == processDocument(DB, content, userId, "file.txt", outs)
                IN /\ SetDB(a.db)
                   /\ op' = "processDocument"
                   /\ req' = [content |-> content, userId |-> userId, outcomes |-> outs]
                   /\ res' = Result(a.r)
                   /\ calls' = a.r.calls
                   /\ UNCHANGED <<env, deleted>>

Next ==
    \/ AddNode
    \/ AddRelation
    \/ SearchNodes
    \/ RAGQuery
    \/ GetKnowledgeGraph
    \/ DeleteNode
    \/ UploadDocument

Spec == Init /\ [][Next]_vars

(***************************************************************************)
(* The knowledge graph while every operation succeeds: the providers and   *)
(* the stores answer every call, and an operation that would fail (a       *)
(* duplicate relation) is not issued.  Up to MaxOps operations.            *)
(***************************************************************************)
\* metadata.confidence of a node added by hand: absent, 0, 0.9
StoredConfidences == {Undefined, 0, 90}

\* an embedding came back (from either provider) and the upsert went through
SucceedingOutcomes == {o \in NodeOutcomes : (o.p.ok \/ o.s.ok) /\ o.upsertOk}

Runnable == ~Observed /\ writes < MaxOps

AddNodeOk ==
    /\ Runnable
    /\ nextId < MaxNodes
    /\ \E userId \in Tenants, confidence \in StoredConfidences, o \in SucceedingOutcomes :
        LET node == [userId |-> userId, title |-> <<"T">>, content |-> <<"C">>,
                     type |-> "entity", confidence |-> confidence, tags |-> <<>>,
                     connections |-> <<>>]
            a == addNode(DB, node, o.p, o.s, o.upsertOk)
        IN /\ a.r.ok
           /\ SetDB(a.db)
           /\ op' = "addNode"
           /\ req' = [userId |-> userId, confidence |-> confidence, outcome |-> o]
           /\ res' = Result(a.r)
           /\ calls' = a.r.calls
           /\ UNCHANGED <<env, deleted>>

AddRelationOk ==
    /\ Runnable
    /\ \E userId \in Tenants, src \in NodeIds, tgt \in NodeIds :
        LET relation == [userId |-> userId, sourceNodeId |-> src, targetNodeId |-> tgt,
                         relationType |-> "related", strength |-> 50]
            a == addRelation(DB, relation)
        IN /\ a.r.ok
           /\ SetDB(a.db)
           /\ op' = "addRelation"
           /\ req' = [relation |-> relation]
           /\ res' = Result(a.r)
           /\ calls' = a.r.calls
           /\ UNCHANGED <<env, deleted>>

DeleteNodeOk ==
    /\ Runnable
    /\ \E nodeId \in NodeIds, userId \in Tenants :
        LET a == deleteNode(DB, nodeId, userId, TRUE)
            owned == nodeId \in DOMAIN nodes /\ nodes[nodeId].userId = userId
        IN /\ a.r.ok
           /\ SetDB(a.db)
           /\ deleted' = IF owned THEN deleted \cup {nodeId} ELSE deleted
           /\ op' = "deleteNode"
           /\ req' = [nodeId |-> nodeId, userId |-> userId, qdrantOk |-> TRUE, owned |-> owned]
           /\ res' = Result(a.r)
           /\ calls' = a.r.calls
           /\ UNCHANGED env

UploadDocumentOk ==
    /\ Runnable
    /\ \E content \in Documents, userId \in Tenants :
        LET n == Len(RetainedSentences(content))
        IN /\ nextId + n <= MaxNodes
           /\ \E outs \in [1..n -> SucceedingOutcomes] :
                LET a == processDocument(DB, content, userId, "file.txt", outs)
                IN /\ a.r.ok
                   /\ SetDB(a.db)
                   /\ op' = "processDocument"
                   /\ req' = [content |-> content, userId |-> userId, outcomes |-> outs]
                   /\ res' = Result(a.r)
                   /\ calls' = a.r.calls
                   /\ UNCHANGED <<env, deleted>>

\* a RAG query whose embedding and generation calls are answered
RAGQueryOk ==
    /\ ~Observed
    /\ \E userId \in Readers, maxResults \in RagMaxResults, threshold \in Thresholds,
       x \in {y \in RagOutcomes : (y.o.p.ok \/ y.o.s.ok) /\ (y.g.first.ok \/ y.g.local.ok)} :
        LET query == [query |-> "query", userId |-> userId, model |-> "", provider |-> "",
                      maxResults |-> maxResults, threshold |-> threshold,
                      customKeyId |-> "", apiKey |-> ""]
        IN \E r \in performRAGQuery(DB, query, x.o.p, x.o.s, Answering, x.g.first, x.g.local) :
           /\ r.ok
           /\ op' = "rag"
           /\ req' = [userId |-> userId, maxResults |-> maxResults, threshold |-> threshold,
                      outcome |-> x.o, generation |-> x.g]
           /\ res' = Result(r)
           /\ calls' = r.calls
           /\ UNCHANGED <<env, store>>

\* nodes are only added and deleted
NextNodes == AddNodeOk \/ DeleteNodeOk

SpecNodes == Init /\ [][NextNodes]_vars

NextSucceeding ==
    \/ AddNodeOk
    \/ AddRelationOk
    \/ DeleteNodeOk
    \/ UploadDocumentOk
    \/ RAGQueryOk

SpecSucceeding == Init /\ [][NextSucceeding]_vars

(***************************************************************************)
(* DatabaseManager.connectQdrant: the schema of the Qdrant collection.     *)
(* x gives the outcome of each call of the Qdrant client: getCollections   *)
(* (list), getCollection (info), deleteCollection (drop), createCollection *)
(* (create).  Deleting a collection deletes its points.                    *)
(***************************************************************************)
AbsentCollection == [exists |-> FALSE, vectors |-> NoValue]

\* the collection of the earlier single-vector schema: vectors is {size, distance}
LegacyCollection == [exists |-> TRUE, vectors |-> [size |-> OpenAIDim, distance |-> "Cosine"]]

\* The collection is recreated whenever it exists.
ensureCollectionExists_recreatesAlways(col, pts, x) ==
    LET unchanged == [collection |-> col, points |-> pts]
        dropped == [collection |-> AbsentCollection, points |-> {}]
        created == [collection |-> MultiVectorCollection, points |-> {}]
    IN IF ~x.list
       THEN [r |-> Err(<<"getCollections">>, <<"getCollections">>), db |-> unchanged]
       ELSE IF col.exists
            THEN IF ~x.info
                 THEN [r |-> Err(<<"getCollection">>, <<"getCollections", "getCollection">>),
                       db |-> unchanged]
                 ELSE IF ~x.drop
                      THEN [r |-> Err(<<"deleteCollection">>,
                                      <<"getCollections", "getCollection",
                                        "deleteCollection">>),
                            db |-> unchanged]
                      ELSE IF ~x.create
                           THEN [r |-> Err(<<"createCollection">>,
                                           <<"getCollections", "getCollection",
                                             "deleteCollection", "createCollection">>),
                                 db |-> dropped]
                           ELSE [r |-> Ok(NoValue,
                                          <<"getCollections", "getCollection",
                                            "deleteCollection", "createCollection">>),
                                 db |-> created]
            ELSE IF ~x.create
                 THEN [r |-> Err(<<"createCollection">>,
                                 <<"getCollections", "createCollection">>),
                       db |-> unchanged]
                 ELSE [r |-> Ok(NoValue, <<"getCollections", "createCollection">>),
                       db |-> created]

ensureCollectionExists(col, pts, x) ==
    LET unchanged == [collection |-> col, points |-> pts]
        dropped == [collection |-> AbsentCollection, points |-> {}]
        created == [collection |-> MultiVectorCollection, points |-> {}]
    IN IF ~x.list
       THEN [r |-> Err(<<"getCollections">>, <<"getCollections">>), db |-> unchanged]
       ELSE IF col.exists
            THEN IF ~x.info
                 THEN [r |-> Err(<<"getCollection">>, <<"getCollections", "getCollection">>),
                       db |-> unchanged]
                 ELSE IF "size" \in DOMAIN col.vectors
                      THEN IF ~x.drop
                           THEN [r |-> Err(<<"deleteCollection">>,
                                           <<"getCollections", "getCollection",
                                             "deleteCollection">>),
                                 db |-> unchanged]
                           ELSE IF ~x.create
                                THEN [r |-> Err(<<"createCollection">>,
                                                <<"getCollections", "getCollection",
                                                  "deleteCollection", "createCollection">>),
                                      db |-> dropped]
                                ELSE [r |-> Ok(NoValue,
                                               <<"getCollections", "getCollection",
                                                 "deleteCollection", "createCollection">>),
                                      db |-> created]
                      ELSE [r |-> Ok(NoValue, <<"getCollections", "getCollection">>),
                            db |-> unchanged]
            ELSE IF ~x.create
                 THEN [r |-> Err(<<"createCollection">>,
                                 <<"getCollections", "createCollection">>),
                       db |-> unchanged]
                 ELSE [r |-> Ok(NoValue, <<"getCollections", "createCollection">>),
                       db |-> created]

SchemaOutcomes == [list : BOOLEAN, info : BOOLEAN, drop : BOOLEAN, create : BOOLEAN]

\* a node the earlier version stored, and its point in the single-vector collection
LegacyNode ==
    [userId |-> "A", title |-> <<"T">>, content |-> <<"C">>, type |-> "entity",
     confidence |-> Undefined, tags |-> <<>>,
     embedding |-> [dim |-> OpenAIDim, v |-> <<5, 0>>],
     connections |-> <<>>]

LegacyPoint ==
    [id |-> convertObjectIdToUUID(1, 1), vectorName |-> "",
     vector |-> [dim |-> OpenAIDim, v |-> <<5, 0>>],
     payload |-> [mongoId |-> 1, userId |-> "A",
                  embeddingModel |-> "text-embedding-3-small"]]

\* the server is about to start: no collection yet, the collection of the
\* earlier version (empty or with a point), or the collection of this version
InitSchema ==
    /\ env \in GraphEnvs
    /\ collection \in {AbsentCollection, LegacyCollection, MultiVectorCollection}
    /\ nodes \in IF collection = LegacyCollection THEN {<<>>, <<LegacyNode>>} ELSE {<<>>}
    /\ points = IF nodes = <<>> THEN {} ELSE {LegacyPoint}
    /\ nextId = Len(nodes)
    /\ relations = {}
    /\ deleted = {}
    /\ writes = 0
    /\ op = "init"
    /\ req = NoValue
    /\ res = [ok |-> TRUE, value |-> NoValue, error |-> <<>>]
    /\ calls = <<>>

EnsureCollectionExists ==
    \E x \in SchemaOutcomes :
        LET a == ensureCollectionExists(collection, points, x)
        IN /\ collection' = a.db.collection
           /\ points' = a.db.points
           /\ op' = "ensureCollectionExists"
           /\ req' = [found |-> collection, outcome |-> x]
           /\ res' = Result(a.r)
           /\ calls' = a.r.calls
           /\ UNCHANGED <<env, nodes, relations, nextId, deleted, writes>>

\* addNode once the server is up: the upsert of a named vector is accepted
\* by a collection of named vectors only
AddNodeStored ==
    /\ collection.exists
    /\ "size" \notin DOMAIN collection.vectors
    /\ AddNodeOk

NextSchema ==
    \/ EnsureCollectionExists
    \/ AddNodeStored

SpecSchema == InitSchema /\ [][NextSchema]_vars

(***************************************************************************)
(* Documents uploaded while an embedding is always to be had: the primary  *)
(* provider answers or fails call by call, the secondary provider answers, *)
(* and the upsert is accepted.                                             *)
(***************************************************************************)
\* a run of n letters
Letters(n) == [i \in 1..n |-> "x"]

\* the example document; segments of 19, 20 and 21 characters; segments
\* that are long only with their blanks; runs of terminators; no final
\* terminator
SegmentedDocuments ==
    {Doc1,
     <<>>,
     Letters(19) \o <<".">>,
     Letters(20) \o <<".">>,
     <<" ">> \o Letters(19) \o <<" ", "!">>,
     <<" ", "\t">> \o Letters(10) \o <<" ">> \o Letters(10) \o <<"\n", "?", "!">>,
     Letters(11) \o <<"!", "?", " ">> \o Letters(20) \o <<".", ".", ".">>
         \o Letters(10) \o <<"?", "\n">> \o Letters(21)}

UploadDocumentEmbedded ==
    /\ Runnable
    /\ \E content \in SegmentedDocuments, userId \in Tenants :
        LET n == Len(RetainedSentences(content))
        IN /\ nextId + n <= MaxNodes
           /\ \E outs \in [1..n -> SucceedingOutcomes] :
                LET a == processDocument(DB, content, userId, "file.txt", outs)
                IN /\ SetDB(a.db)
                   /\ op' = "processDocument"
                   /\ req' = [content |-> content, userId |-> userId, outcomes |-> outs]
                   /\ res' = Result(a.r)
                   /\ calls' = a.r.calls
                   /\ UNCHANGED <<env, deleted>>

\* a node added by hand, with no confidence given
AddNodeEmbedded ==
    /\ Runnable
    /\ nextId < MaxNodes
    /\ \E userId \in Tenants, o \in SucceedingOutcomes :
        LET node == [userId |-> userId, title |-> <<"T">>, content |-> <<"C">>,
                     type |-> "entity", confidence |-> Undefined, tags |-> <<>>,
                     connections |-> <<>>]
            a == addNode(DB, node, o.p, o.s, o.upsertOk)
        IN /\ SetDB(a.db)
           /\ op' = "addNode"
           /\ req' = [userId |-> userId, confidence |-> Undefined, outcome |-> o]
           /\ res' = Result(a.r)
           /\ calls' = a.r.calls
           /\ UNCHANGED <<env, deleted>>

\* a search whose query embedding is to be had
SearchNodesEmbedded ==
    /\ ~Observed
    /\ \E userId \in Readers, limit \in Limits, threshold \in Thresholds,
          o \in {x \in QueryEmbOutcomes : x.p.ok \/ x.s.ok} :
        \E r \in searchSimilarNodes(DB, "query", userId, limit, threshold, o.p, o.s, Answering) :
           /\ op' = "search"
           /\ req' = [userId |-> userId, limit |-> limit, threshold |-> threshold, outcome |-> o]
           /\ res' = Result(r)
           /\ calls' = r.calls
           /\ UNCHANGED <<env, store>>

NextDocuments ==
    \/ UploadDocumentEmbedded
    \/ AddNodeEmbedded
    \/ SearchNodesEmbedded

SpecDocuments == Init /\ [][NextDocuments]_vars

(***************************************************************************)
(* The vector name of every embedding model the configuration may name     *)
(***************************************************************************)
ModelNames == DOMAIN Chars

\* DEFAULT_EMBEDDING_MODEL and OLLAMA_EMBEDDING_MODEL are free text
NamespaceEnvs ==
    {[e EXCEPT !.DEFAULT_EMBEDDING_MODEL = d, !.OLLAMA_EMBEDDING_MODEL = m] :
        e \in GraphEnvs,
        d \in {"", "text-embedding-ada-002"},
        m \in {"", "mxbai-embed-large", "ollama-text-embedding"}}

InitNamespaces == env \in NamespaceEnvs /\ Started

GetVectorName ==
    /\ Runnable
    /\ \E model \in ModelNames :
        /\ op' = "getVectorName"
        /\ req' = [model |-> model]
        /\ res' = Result(Ok(getVectorName(model), <<>>))
        /\ calls' = <<>>
        /\ UNCHANGED <<env, store>>

NextNamespaces ==
    \/ GetVectorName
    \/ EnsureCollectionExists
    \/ AddNodeEmbedded

SpecNamespaces == InitNamespaces /\ [][NextNamespaces]_vars

(***************************************************************************)
(* Relations added by hand between nodes added by hand                     *)
(***************************************************************************)
AddRelationAny ==
    /\ ~Observed
    /\ writes < MaxRelationOps
    /\ \E userId \in Tenants, src \in NodeIds, tgt \in NodeIds :
        LET relation == [userId |-> userId, sourceNodeId |-> src, targetNodeId |-> tgt,
                         relationType |-> "related", strength |-> 50]
            a == addRelation(DB, relation)
        IN /\ SetDB(a.db)
           /\ op' = "addRelation"
           /\ req' = [relation |-> relation]
           /\ res' = Result(a.r)
           /\ calls' = a.r.calls
           /\ UNCHANGED <<env, deleted>>

NextRelations ==
    \/ AddNodeEmbedded
    \/ AddRelationAny

SpecRelations == Init /\ [][NextRelations]_vars

(***************************************************************************)
(* RAG queries whose calls may fail at every step                          *)
(***************************************************************************)
\* the outcomes of the reads of one search; find is reached only when the
\* search answered
ReadOutcomes ==
    {[search |-> TRUE, find |-> f] : f \in BOOLEAN} \cup {[search |-> FALSE, find |-> TRUE]}

RAGQueryAny ==
    /\ ~Observed
    /\ \E userId \in Readers, maxResults \in RagMaxResults, threshold \in Thresholds,
          x \in RagOutcomes, q \in ReadOutcomes :
        LET query == [query |-> "query", userId |-> userId, model |-> "", provider |-> "",
                      maxResults |-> maxResults, threshold |-> threshold,
                      customKeyId |-> "", apiKey |-> ""]
        IN \E r \in performRAGQuery(DB, query, x.o.p, x.o.s, q, x.g.first, x.g.local) :
           /\ op' = "rag"
           /\ req' = [userId |-> userId, maxResults |-> maxResults, threshold |-> threshold,
                      outcome |-> x.o, reads |-> q, generation |-> x.g]
           /\ res' = Result(r)
           /\ calls' = r.calls
           /\ UNCHANGED <<env, store>>

NextRAG ==
    \/ UploadDocumentEmbedded
    \/ RAGQueryAny

SpecRAG == Init /\ [][NextRAG]_vars

(***************************************************************************)
(* Nodes and relations added by hand, with every outcome of the calls, and *)
(* followed up to the first read                                           *)
(***************************************************************************)
NextWrites ==
    \/ AddNode
    \/ AddRelation
    \/ SearchNodes
    \/ GetKnowledgeGraph

SpecWrites == Init /\ [][NextWrites]_vars

(***************************************************************************)
(* Properties of the embedding and generation gateways (SpecGateway)       *)
(***************************************************************************)
Range(f) == {f[i] : i \in DOMAIN f}

IsSecondaryFamilyModel(model) == Includes(model, "nomic-embed") \/ Includes(model, "ollama")

\* C1: whenever the primary embedding call fails, fallback is enabled and the
\* secondary call succeeds, embed returns the secondary provider's vector,
\* tagged with a secondary-family model whose derived namespace is the
\* secondary namespace "ollama" -- with or without a model hint.
C1_EmbeddingFallbackTagsSecondary ==
    (op = "embed" /\ ~req.primary.ok /\ useOllamaFallback /\ req.secondary.ok)
        => /\ res.ok
           /\ res.value.embedding = [dim |-> OllamaDim, v |-> req.secondary.v]
           /\ IsSecondaryFamilyModel(res.value.model)
           /\ getVectorName(res.value.model) = "ollama"

\* C2: embed fails, returning no vector, exactly when the primary call fails
\* and either fallback is disabled or the secondary call fails too; with
\* fallback disabled the secondary provider is never called.
C2_EmbedFailsExactlyWhen ==
    op = "embed"
        => /\ ~res.ok <=> (~req.primary.ok /\ (~useOllamaFallback \/ ~req.secondary.ok))
           /\ ~res.ok => (res.value = NoValue /\ res.error # <<>>)
           /\ ~useOllamaFallback => \A i \in DOMAIN calls : calls[i].provider # "ollama"

C2_Witness ==
    /\ op = "embed" /\ ~res.ok /\ ~useOllamaFallback
    /\ ~req.primary.ok /\ req.secondary.ok /\ Len(calls) = 1

\* C3: when the provider attempted first is not the local one and its call
\* fails, whatever the cause, and the local call succeeds, generate returns an
\* answer tagged provider ollama and the local default model, and no error.
C3_GenerationFallbackToLocal ==
    (op = "generate" /\ Len(calls) >= 1 /\ calls[1].provider # "ollama"
        /\ ~req.first.ok /\ req.local.ok)
        => /\ res.ok
           /\ res.value.answer = req.local.answer
           /\ res.value.metadata.provider = "ollama"
           /\ res.value.metadata.model = getDefaultModel("ollama")

C3_Witness ==
    /\ op = "generate" /\ Len(calls) = 2 /\ calls[1].provider = "anthropic"
    /\ req.first.cause = "auth" /\ req.local.ok /\ res.ok
    /\ req.request.model = "gpt-4" /\ env.OLLAMA_MODEL = "mistral"
    /\ res.value.metadata.model = "mistral"

\* The message of the error a provider method throws when its call fails.
ProviderErrorMessage(provider) ==
    CASE provider = "openai"    -> "Failed to generate OpenAI response"
      [] provider = "anthropic" -> "Failed to generate Anthropic response"
      [] provider = "ollama"    -> "Failed to generate Ollama response"

\* C4: when the call to the non-local provider attempted first fails and the
\* local fallback call fails too, generate fails with one error whose message
\* carries the message of the first provider's error and the message of the
\* local provider's error.
C4_BothFailuresCarried ==
    (op = "generate" /\ Len(calls) >= 1 /\ calls[1].provider # "ollama"
        /\ ~req.first.ok /\ ~req.local.ok)
        => /\ ~res.ok
           /\ res.value = NoValue
           /\ ProviderErrorMessage(calls[1].provider) \in Range(res.error)
           /\ ProviderErrorMessage("ollama") \in Range(res.error)

C4_Witness ==
    /\ op = "generate" /\ Len(calls) = 2 /\ calls[1].provider = "openai"
    /\ calls[2].provider = "ollama" /\ ~req.first.ok /\ ~req.local.ok
    /\ res.error = <<"All AI providers failed. Primary: ",
                     "Failed to generate OpenAI response",
                     ", Ollama: ", "Failed to generate Ollama response">>

\* C5: a request that pins no provider and carries a custom credential of the
\* tenant has the provider of that credential attempted first, whatever
\* process-level credentials are configured.
C5_CustomCredentialPreferred ==
    (op = "generate" /\ req.request.provider = "" /\ req.request.customKeyId # "")
        => /\ Len(calls) >= 1
           /\ calls[1].provider = UserApiKeys[req.request.customKeyId].provider

\* C6: with no pinned provider and no tenant credential the provider attempted
\* first is openai if OPENAI_API_KEY is set, else anthropic if
\* ANTHROPIC_API_KEY is set, else ollama; a pinned provider is attempted first.
C6_ProcessLevelSelection ==
    op = "generate"
        => /\ (req.request.provider = "" /\ req.request.customKeyId = "")
                => /\ Len(calls) >= 1
                   /\ calls[1].provider =
                        IF env.OPENAI_API_KEY # "" THEN "openai"
                        ELSE IF env.ANTHROPIC_API_KEY # "" THEN "anthropic"
                        ELSE "ollama"
           /\ req.request.provider \in {"openai", "anthropic", "ollama"}
                => /\ Len(calls) >= 1
                   /\ calls[1].provider = req.request.provider

C6_Witness ==
    /\ op = "generate" /\ req.request.provider = "" /\ req.request.customKeyId = ""
    /\ env.OPENAI_API_KEY = "" /\ env.ANTHROPIC_API_KEY # ""
    /\ calls[1].provider = "anthropic"

(***************************************************************************)
(* Properties of the knowledge graph (Spec)                                *)
(***************************************************************************)
\* the search the last operation sent to Qdrant, with Qdrant's answer
QdrantCall == calls[CHOOSE i \in DOMAIN calls : calls[i].provider = "qdrant"]

\* the nodes the last search or RAG query returned
Returned == IF op = "rag" THEN res.value.sources ELSE res.value

ReturnedIds == {Returned[i]._id : i \in DOMAIN Returned}

Searched == op \in {"search", "rag"} /\ res.ok

\* the score the index gave the point of node id in the last search
IndexScore(id) ==
    (CHOOSE e \in Range(QdrantCall.result) : e.payload.mongoId = id).score

\* C7: every node a search or a RAG query of a tenant returns is owned by
\* that tenant, whatever the tenants added, related, deleted and uploaded
\* before, and even when another tenant's vector scores higher.
C7_TenantIsolation ==
    Searched
        => \A i \in DOMAIN Returned :
              /\ Returned[i].userId = req.userId
              /\ Returned[i]._id \in DOMAIN nodes
              /\ nodes[Returned[i]._id].userId = req.userId

C7_Witness ==
    /\ op = "search" /\ res.ok /\ Len(res.value) >= 1
    /\ \E pt \in points :
          /\ pt.payload.userId # req.userId
          /\ pt.vectorName = QdrantCall.vectorName
          /\ CosineScore(QdrantCall.vector.v, pt.vector.v) > IndexScore(res.value[1]._id)

\* C8: the threshold applied is the one the caller of search or of the RAG
\* query supplied, 0 included, and it is inclusive: every returned node scores
\* at least t, and a node of the tenant whose point scores t or more is
\* returned unless the result limit was reached.
C8_ThresholdInclusiveCallers ==
    Searched
        => LET t == req.threshold
               score(pt) == CosineScore(QdrantCall.vector.v, pt.vector.v)
               own == {pt \in points :
                         /\ pt.vectorName = QdrantCall.vectorName
                         /\ pt.payload.mongoId \in DOMAIN nodes
                         /\ nodes[pt.payload.mongoId].userId = req.userId}
           IN /\ \A pt \in own : pt.payload.mongoId \in ReturnedIds => score(pt) >= t
              /\ \A pt \in own :
                    score(pt) >= t
                        => \/ pt.payload.mongoId \in ReturnedIds
                           \/ Len(QdrantCall.result) = QdrantCall.limit

\* C9: the list searchSimilarNodes returns is ordered by the score of the
\* vector index, best first, holds at most limit nodes and no node twice.
C9_SearchOrderAndSize ==
    (op = "search" /\ res.ok)
        => /\ Len(res.value) <= req.limit
           /\ \A i \in DOMAIN res.value :
                 \E e \in Range(QdrantCall.result) : e.payload.mongoId = res.value[i]._id
           /\ \A i, j \in DOMAIN res.value :
                 i < j => /\ IndexScore(res.value[i]._id) >= IndexScore(res.value[j]._id)
                          /\ res.value[i]._id # res.value[j]._id

C9_Witness ==
    /\ op = "search" /\ res.ok /\ Len(res.value) = 2
    /\ res.value[1]._id > res.value[2]._id
    /\ IndexScore(res.value[1]._id) > IndexScore(res.value[2]._id)

\* C10: a node its owner deleted successfully is in no later result of
\* getKnowledgeGraph and in no later search result or RAG source list.
C10_DeletedNodeAbsent ==
    \A n \in deleted :
        /\ (op = "graph" /\ res.ok)
              => \A i \in DOMAIN res.value.nodes : res.value.nodes[i]._id # n
        /\ Searched => n \notin ReturnedIds

C10_Witness ==
    /\ op = "search" /\ res.ok /\ deleted # {}
    /\ \E e \in Range(QdrantCall.result) : e.payload.mongoId \in deleted

(***************************************************************************)
(* Properties of the two stores                                            *)
(***************************************************************************)
\* the nodes that have a point in the vector index
PointNodeIds == {pt.payload.mongoId : pt \in points}

\* C11: while nodes are only added and deleted, and every call succeeds, the
\* nodes that have a point in the vector index are the nodes of the document
\* store, and no point is left for a node its owner deleted.
C11_PointLifecycle ==
    /\ PointNodeIds = DOMAIN nodes
    /\ \A n \in deleted : n \notin PointNodeIds

\* the relations of a tenant from source to target
RelationsOf(rels, userId, src, tgt) ==
    {x \in rels : x.userId = userId /\ x.sourceNodeId = src /\ x.targetNodeId = tgt}

\* C12: every addRelation leaves at most one relation per (tenant, source,
\* target); it fails, storing nothing, when the same tenant already has a
\* relation from that source to that target, and it is not rejected when only
\* another tenant has that pair or only the reversed pair is there.
C12_RelationUniqueness ==
    [][op' = "addRelation"
         => LET rel == req'.relation
                had == RelationsOf(relations, rel.userId, rel.sourceNodeId,
                                   rel.targetNodeId) # {}
            IN /\ had => (~res'.ok /\ relations' = relations /\ nodes' = nodes)
               /\ ~had => (res'.ok /\ rel \in relations')
               /\ \A u \in Tenants, a \in NodeIds, b \in NodeIds :
                      Cardinality(RelationsOf(relations', u, a, b)) <= 1]_vars

\* node a exists and lists b among its connections
Lists(a, b) == a \in DOMAIN nodes /\ b \in Range(nodes[a].connections)

\* C13: when addRelation(source, target) returns successfully the relation is
\* stored, source lists target and target lists source.
C13_RelationUpdatesEndpoints ==
    (op = "addRelation" /\ res.ok)
        => /\ req.relation \in relations
           /\ Lists(req.relation.sourceNodeId, req.relation.targetNodeId)
           /\ Lists(req.relation.targetNodeId, req.relation.sourceNodeId)

\* C14: while every operation succeeds, adjacency is symmetric: whenever a
\* stored node A lists an id B, node B exists and lists A.
C14_AdjacencySymmetric ==
    \A a \in DOMAIN nodes : \A b \in Range(nodes[a].connections) : Lists(b, a)

\* the relations that have node n as their source or their target
RelationsAt(n) == {x \in relations : x.sourceNodeId = n \/ x.targetNodeId = n}

\* C15: when deleteNode(n) by the owner of n has returned successfully, no
\* relation has n as its source or target, whichever tenant created it.
C15_DeleteCascades ==
    (op = "deleteNode" /\ res.ok /\ req.owned) => RelationsAt(req.nodeId) = {}

\* the stores as the tenant sees them who owns none of the other tenants' nodes
OwnView(userId) ==
    LET own == {n \in DOMAIN nodes : nodes[n].userId = userId}
    IN [DB EXCEPT !.nodes = [n \in own |-> nodes[n]]]

\* C16: an addRelation or a deleteNode of a tenant leaves every node of the
\* other tenants as it was (its connections too), removes no point and no
\* relation of theirs, and returns what it returns when their nodes are not
\* there.
C16_CrossTenantNoOp ==
    [][op' \in {"addRelation", "deleteNode"}
         => LET caller == IF op' = "addRelation" THEN req'.relation.userId ELSE req'.userId
                alone == IF op' = "addRelation"
                         THEN addRelation(OwnView(caller), req'.relation)
                         ELSE deleteNode(OwnView(caller), req'.nodeId, caller, req'.qdrantOk)
            IN /\ \A n \in DOMAIN nodes :
                     nodes[n].userId # caller => (n \in DOMAIN nodes' /\ nodes'[n] = nodes[n])
               /\ \A pt \in points : pt.payload.userId # caller => pt \in points'
               /\ \A x \in relations : x.userId # caller => x \in relations'
               /\ res' = Result(alone.r)]_vars

\* the stored confidence of a node as the mean counts it: 0.5 when absent
Counted(confidence) == IF confidence = Undefined THEN 50 ELSE confidence

RECURSIVE SumCounted(_)
SumCounted(ns) ==
    IF ns = <<>> THEN 0 ELSE Counted(Head(ns).confidence) + SumCounted(Tail(ns))

\* C17: the confidence of a RAG answer is the mean of the stored confidences
\* of its sources, a source without stored confidence counting 0.5; it is 0.5
\* without sources, lies within [0,1], and is the stored confidence of the
\* only source when there is one, whatever that value is, 0 included.
C17_RAGConfidence ==
    (op = "rag" /\ res.ok)
        => LET sources == res.value.sources
               c == res.value.confidence
           IN /\ c.den > 0 /\ 0 <= c.num /\ c.num <= c.den
              /\ sources = <<>> => c.num * 100 = 50 * c.den
              /\ sources # <<>> => c.num * 100 * Len(sources) = SumCounted(sources) * c.den
              /\ (Len(sources) = 1 /\ sources[1].confidence # Undefined)
                    => c.num * 100 = sources[1].confidence * c.den


(***************************************************************************)
(* Properties of the chat orchestration and of the prompts                 *)
(***************************************************************************)
\* a call of a chat model, as against a call of an embedding model or of
\* the vector store
IsGeneration(c) == "apiKey" \in DOMAIN c

\* what the called model is given ahead of the user message
ContextBlock(c) ==
    CASE c.provider = "openai" ->
             IF Len(c.messages) > 1 THEN c.messages[1].content ELSE <<>>
      [] c.provider = "anthropic" -> c.system
      [] c.provider = "ollama" -> SubSeq(c.prompt, 1, Len(c.prompt) - 1)

\* the user message the called model is given, after the context
UserMessage(c) ==
    CASE c.provider = "openai" -> c.messages[Len(c.messages)].content
      [] c.provider = "anthropic" -> c.messages[Len(c.messages)].content
      [] c.provider = "ollama" -> SubSeq(c.prompt, Len(c.prompt), Len(c.prompt))

\* C18: with useRAG disabled, handling a chat message calls no embedding
\* model and searches no vectors: every call made is a generation call, made
\* with no context passages; a response that is returned is the generation
\* result with an empty source list and confidence 1.0.
C18_DirectChatSkipsRetrieval ==
    (op = "generate")
        => /\ calls # <<>>
           /\ \A i \in DOMAIN calls :
                  IsGeneration(calls[i]) /\ ContextBlock(calls[i]) = <<>>
           /\ res.ok => /\ res.value.sources = <<>>
                        /\ res.value.confidence = [num |-> 100, den |-> 100]
                        /\ res.value.answer = req.first.answer
                             \/ res.value.answer = req.local.answer
                        /\ res.value.metadata.provider = calls[Len(calls)].provider
                        /\ res.value.metadata.model = calls[Len(calls)].model

C18_Witness ==
    /\ op = "generate"
    /\ ~req.useRAG
    /\ res.ok
    /\ res.value.answer = "answer"
    /\ Len(calls) = 1

\* the passages one after the other, nothing between them
RECURSIVE Concat(_)
Concat(items) == IF items = <<>> THEN <<>> ELSE Head(items) \o Concat(Tail(items))

\* the context block without the words the gateway puts around the passages
Shown(c) == SelectSeq(ContextBlock(c), LAMBDA x : x \notin {"Context: ", "\n\n"})

\* C19: whatever the context list (none, empty, one passage, several), each
\* provider called is shown exactly the supplied passages, in the supplied
\* order, ahead of the user message; and with no passage supplied no
\* provider is given a context block.
C19_PromptNormalization ==
    (op = "generateResponse")
        => LET supplied == req.request.context.items
           IN \A i \in DOMAIN calls :
                  /\ Shown(calls[i]) = Concat(supplied)
                  /\ UserMessage(calls[i]) = <<req.request.message>>
                  /\ supplied = <<>> => ContextBlock(calls[i]) = <<>>

\* C20: ensureCollectionExists is idempotent.  From whatever collection it
\* finds (none, the single-vector one, the multi-vector one), a run that
\* succeeds leaves a collection with exactly the two named vectors
\* openai (1536) and ollama (768); a run that finds that collection changes
\* neither the collection nor its points; and a run, successful or not,
\* destroys points only when it has found the single-vector schema.
C20_EnsureSchemaIdempotent ==
    [][op' = "ensureCollectionExists"
         => LET multi == /\ collection.exists
                         /\ DOMAIN collection.vectors = {"openai", "ollama"}
            IN /\ res'.ok => /\ collection'.exists
                             /\ DOMAIN collection'.vectors = {"openai", "ollama"}
                             /\ collection'.vectors.openai.size = 1536
                             /\ collection'.vectors.ollama.size = 768
               /\ multi => (collection' = collection /\ points' = points)
               /\ points' \subseteq points
               /\ points' # points
                     => (collection.exists /\ DOMAIN collection.vectors = {"size", "distance"})]_vars

\* a run that succeeds on the collection an earlier run left, with a point in it
C20_Witness ==
    /\ op = "ensureCollectionExists"
    /\ res.ok
    /\ req.found = MultiVectorCollection
    /\ collection = req.found
    /\ points # {}
    /\ nodes # <<>>
    /\ nodes[1] = LegacyNode
    /\ 1 \notin PointNodeIds

(***************************************************************************)
(* Properties of the decomposition of documents (SpecDocuments)            *)
(***************************************************************************)
\* the segments of a text: its longest stretches without a terminator, as
\* pairs <<first, last>> of positions
Segments(content) ==
    {pair \in (1..Len(content)) \X (1..Len(content)) :
        /\ pair[1] <= pair[2]
        /\ \A k \in pair[1]..pair[2] : ~IsTerminator(content[k])
        /\ pair[1] = 1 \/ IsTerminator(content[pair[1] - 1])
        /\ pair[2] = Len(content) \/ IsTerminator(content[pair[2] + 1])}

\* a segment without the blanks around it
Trimmed(content, pair) ==
    LET inked == {k \in pair[1]..pair[2] : ~IsWhitespace(content[k])}
    IN IF inked = {} THEN <<>>
       ELSE SubSeq(content,
                   CHOOSE k \in inked : \A m \in inked : k <= m,
                   CHOOSE k \in inked : \A m \in inked : k >= m)

\* the segments that are kept, first to last
Retained(content) ==
    LET kept == {pair \in Segments(content) : Len(Trimmed(content, pair)) >= 20}
        firsts == Ascending({pair[1] : pair \in kept})
    IN [i \in 1..Len(firsts) |->
            Trimmed(content, CHOOSE pair \in kept : pair[1] = firsts[i])]

\* C21: a decomposition that succeeds returns exactly one node for each
\* segment of the text whose trimmed length is at least 20, in document
\* order; each is a node of the caller, of type concept, whose content is the
\* trimmed segment, with confidence 0.8 and the tag "document", and each is
\* stored; the two-sentence example document yields exactly 2 nodes.
C21_DocumentDecomposition ==
    (op = "processDocument" /\ res.ok)
        => LET created == res.value.nodes
               retained == Retained(req.content)
           IN /\ Len(created) = Len(retained)
              /\ \A i \in DOMAIN created :
                    /\ created[i].content = retained[i]
                    /\ created[i].type = "concept"
                    /\ created[i].confidence = 80
                    /\ created[i].tags = <<"document">>
                    /\ created[i].userId = req.userId
                    /\ created[i]._id \in DOMAIN nodes
                    /\ nodes[created[i]._id].content = retained[i]
              /\ \A i, j \in DOMAIN created : i < j => created[i]._id < created[j]._id
              /\ req.content = Doc1 => Len(created) = 2

C21_Witness ==
    /\ op = "processDocument"
    /\ res.ok
    /\ Len(res.value.nodes) = 2
    /\ req.content # Doc1
    /\ Cardinality(Segments(req.content)) = 4

\* the pairs of positions i < j of the created nodes whose embeddings are
\* more similar than 0.7, in hundredths
SimilarPairs(created) ==
    {pair \in (DOMAIN created) \X (DOMAIN created) :
        /\ pair[1] < pair[2]
        /\ CosineScore(created[pair[1]].embedding.v, created[pair[2]].embedding.v) > 70}

SimilarRelation(created, pair, userId) ==
    [userId |-> userId,
     sourceNodeId |-> created[pair[1]]._id,
     targetNodeId |-> created[pair[2]]._id,
     relationType |-> "similar",
     strength |-> CosineScore(created[pair[1]].embedding.v, created[pair[2]].embedding.v)]

\* C22: a decomposition that succeeds returns exactly one `similar` relation
\* for each pair of the created nodes whose embeddings have a cosine
\* similarity above 0.7, from the earlier node to the later one and with the
\* similarity as its strength, and no other relation; the relations are
\* stored, and a pair less similar than 0.7 has no relation.
C22_SimilarityRelations ==
    (op = "processDocument" /\ res.ok)
        => LET created == res.value.nodes
               returned == res.value.relations
               similar == SimilarPairs(created)
           IN /\ Len(returned) = Cardinality(similar)
              /\ Range(returned) = {SimilarRelation(created, pair, req.userId) : pair \in similar}
              /\ Range(returned) \subseteq relations
              /\ \A x \in relations, i, j \in DOMAIN created :
                    (x.sourceNodeId = created[i]._id /\ x.targetNodeId = created[j]._id)
                        => /\ i < j
                           /\ x.strength >= 70
                           /\ CosineScore(created[i].embedding.v, created[j].embedding.v) >= 70

\* two nodes created, similar enough, and their relation
C22_Witness ==
    /\ op = "processDocument"
    /\ res.ok
    /\ Len(res.value.nodes) = 2
    /\ Len(res.value.relations) = 1
    /\ res.value.relations[1].strength = 100

\* C24: while the secondary provider answers whenever the primary fails, no
\* addNode, searchSimilarNodes or processDocument fails, every point is
\* stored under a namespace of its vector's dimensionality, and every search
\* queries a namespace of the query vector's dimensionality.
C24_NoDimensionMismatch ==
    (op \in {"addNode", "search", "processDocument"})
        => /\ res.ok
           /\ \A pt \in points : pt.vector.dim = NamespaceDim(pt.vectorName)
           /\ op = "search" => QdrantCall.vector.dim = NamespaceDim(QdrantCall.vectorName)

(***************************************************************************)
(* Properties of the fallbacks (SpecGateway)                               *)
(***************************************************************************)
\* C23: an embedding makes one call to the primary provider and, after it,
\* at most one call to the secondary provider, made only when the primary
\* failed; a generation makes at most one call to the selected provider and,
\* after it, at most one call to the local provider, made only when the
\* first attempt failed; when the local provider is the first choice there is
\* exactly one call and its failure is the failure returned; and every
\* operation ends with a result or with an error.
C23_BoundedFallback ==
    /\ op = "embed"
          => /\ Len(calls) \in 1..2
             /\ calls[1].provider = "openai"
             /\ Len(calls) = 2 => (calls[2].provider = "ollama" /\ ~req.primary.ok)
    /\ op \in {"generate", "generateResponse"}
          => LET selected == Or(req.request.provider, getDefaultProvider)
                 cloud == {i \in DOMAIN calls : calls[i].provider # "ollama"}
             IN /\ Len(calls) \in 1..2
                /\ cloud \subseteq {1}
                /\ \A i \in cloud : calls[i].provider = selected
                /\ Len(calls) = 2 => (cloud = {1} /\ ~req.first.ok)
                /\ selected = "ollama"
                      => /\ Len(calls) = 1
                         /\ res.ok <=> req.first.ok
                         /\ ~res.ok => res.error = <<"Failed to generate Ollama response">>
    /\ op # "init" => /\ res.ok => (res.value # NoValue /\ res.error = <<>>)
                      /\ ~res.ok => (res.value = NoValue /\ res.error # <<>>)

\* the local provider is the first choice and fails
C23_Witness ==
    /\ op = "generate"
    /\ Or(req.request.provider, getDefaultProvider) = "ollama"
    /\ ~req.first.ok
    /\ req.local.ok
    /\ ~res.ok
    /\ Len(calls) = 1

\* C29: a generation pinned to a provider that is none of openai, anthropic
\* and ollama makes no call to a cloud provider: it makes one call, to the
\* local provider with the local default model, succeeds exactly when that
\* call succeeds, with the answer tagged ollama and that model, and fails
\* with both errors in its message otherwise.
C29_UnsupportedProviderGoesLocal ==
    (op \in {"generate", "generateResponse"}
       /\ req.request.provider \notin {"", "openai", "anthropic", "ollama"})
        => LET localModel == Or(env.OLLAMA_MODEL, "llama2")
           IN /\ Len(calls) = 1
              /\ calls[1].provider = "ollama"
              /\ calls[1].model = localModel
              /\ res.ok <=> req.local.ok
              /\ res.ok => /\ res.value.metadata.provider = "ollama"
                           /\ res.value.metadata.model = localModel
              /\ ~res.ok => res.error = <<"All AI providers failed. Primary: ",
                                          "Unsupported provider: ", req.request.provider,
                                          ", Ollama: ",
                                          "Failed to generate Ollama response">>

\* the request names a model of the provider it asked for
C29_Witness ==
    /\ op = "generate"
    /\ req.request.provider = "cohere"
    /\ req.request.model = "gpt-4"
    /\ env.OPENAI_API_KEY # ""
    /\ res.ok
    /\ res.value.metadata.model = "llama2"

(***************************************************************************)
(* Properties of the RAG pipeline (SpecRAG)                                *)
(***************************************************************************)
\* the step of the pipeline a call belongs to: 1 embedding of the query,
\* 2 vector search, 3 hydration from the document store, 4 generation
Step(c) ==
    IF IsGeneration(c) THEN 4
    ELSE IF c.provider = "mongodb" THEN 3
         ELSE IF c.provider = "qdrant" THEN 2 ELSE 1

CallsOf(step) == {i \in DOMAIN calls : Step(calls[i]) = step}

\* C25: the calls of a RAG query are made in the order embedding of the
\* query, vector search filtered on the caller's tenant, hydration from the
\* document store, generation; the search and the hydration are made at most
\* once; generation is asked once (one call, and one fallback call after its
\* failure) and only after the embedding, the search and the hydration
\* succeeded, with the passages of the returned sources in their order as
\* its context; if the embedding, the search or the hydration fails no
\* generation call is made and the query fails.
C25_RAGPipelineOrder ==
    (op = "rag")
        => LET embedded == req.outcome.p.ok \/ req.outcome.s.ok
               retrieved == embedded /\ req.reads.search /\ req.reads.find
           IN /\ \A i, j \in DOMAIN calls : i < j => Step(calls[i]) <= Step(calls[j])
              /\ CallsOf(1) # {}
              /\ Cardinality(CallsOf(2)) <= 1
              /\ Cardinality(CallsOf(3)) <= 1
              /\ Cardinality(CallsOf(4)) <= 2
              /\ \A i \in CallsOf(2) \cup CallsOf(3) : calls[i].userId = req.userId
              /\ CallsOf(2) # {} <=> embedded
              /\ CallsOf(3) # {} <=> (embedded /\ req.reads.search)
              /\ CallsOf(4) # {} <=> retrieved
              /\ Cardinality(CallsOf(4)) = 2
                    => (~req.generation.first.ok /\ calls[Len(calls)].provider = "ollama")
              /\ ~retrieved => ~res.ok
              /\ res.ok => \A i \in CallsOf(4) :
                    Shown(calls[i])
                        = Concat([k \in DOMAIN res.value.sources |->
                                      Passage(res.value.sources[k])])

\* two sources, the better match first, and the answer of the fallback
C25_Witness ==
    /\ op = "rag"
    /\ res.ok
    /\ Len(res.value.sources) = 2
    /\ res.value.sources[1]._id = 2
    /\ res.value.sources[1].content # res.value.sources[2].content
    /\ Cardinality(CallsOf(4)) = 2

(***************************************************************************)
(* Properties of partial failures (SpecWrites)                             *)
(***************************************************************************)
\* the nodes of the document store that have no point in the vector index
Pointless == DOMAIN nodes \ PointNodeIds

\* the step of addNode a call belongs to: 1 embedding, 2 save of the node
\* in the document store, 3 upsert of the point
WriteStep(c) ==
    IF c.provider = "qdrant" THEN 3 ELSE IF c.provider = "mongodb" THEN 2 ELSE 1

\* C26: addNode embeds, then saves the node, then upserts the point.  When
\* the embedding fails addNode fails and writes to neither store; when the
\* upsert fails after the save addNode fails and the node stays in the
\* document store without a point.  A node without a point is in the graph
\* its owner reads (when the limit admits all the owner's nodes) and in no
\* result of a similarity search.
C26_AddNodePartialFailure ==
    /\ [][op' = "addNode"
            => LET embedded == req'.outcome.p.ok \/ req'.outcome.s.ok
                   id == nextId + 1
               IN /\ \A i, j \in DOMAIN calls' :
                        i < j => WriteStep(calls'[i]) <= WriteStep(calls'[j])
                  /\ ~embedded
                        => /\ ~res'.ok
                           /\ nodes' = nodes /\ points' = points /\ relations' = relations
                           /\ \A i \in DOMAIN calls' : WriteStep(calls'[i]) = 1
                  /\ embedded
                        => /\ \E i, j \in DOMAIN calls' :
                                 /\ i < j
                                 /\ WriteStep(calls'[i]) = 2 /\ WriteStep(calls'[j]) = 3
                           /\ DOMAIN nodes' = DOMAIN nodes \cup {id}
                           /\ id \notin DOMAIN nodes
                           /\ nodes'[id].userId = req'.userId
                  /\ (embedded /\ ~req'.outcome.upsertOk)
                        => /\ ~res'.ok
                           /\ points' = points
                           /\ id \in DOMAIN nodes' \ {pt.payload.mongoId : pt \in points'}
                  /\ (embedded /\ req'.outcome.upsertOk)
                        => /\ res'.ok
                           /\ \E pt \in points' \ points : pt.payload.mongoId = id]_vars
    /\ [](op = "graph"
            => LET own == {n \in Pointless : nodes[n].userId = req.userId}
                   all == {n \in DOMAIN nodes : nodes[n].userId = req.userId}
                   seen == {res.value.nodes[i]._id : i \in DOMAIN res.value.nodes}
               IN res.ok /\ (Cardinality(all) <= req.limit => own \subseteq seen))
    /\ [](Searched => ReturnedIds \cap Pointless = {})

\* a node whose upsert failed, read by its owner
C26_Witness ==
    /\ op = "graph"
    /\ \E n \in Pointless :
          /\ nodes[n].userId = req.userId
          /\ n \in {res.value.nodes[i]._id : i \in DOMAIN res.value.nodes}
    /\ PointNodeIds # {}

\* C27: when the deletion from the vector index fails, deleteNode of a node
\* by its owner fails, the node stays deleted from the document store, and
\* no relation referencing the node is left.
C27_DeleteNodePartialFailure ==
    [][(/\ op' = "deleteNode"
        /\ ~req'.qdrantOk
        /\ req'.nodeId \in DOMAIN nodes
        /\ nodes[req'.nodeId].userId = req'.userId)
          => /\ ~res'.ok
             /\ req'.nodeId \notin DOMAIN nodes'
             /\ \A x \in relations' :
                    x.sourceNodeId # req'.nodeId /\ x.targetNodeId # req'.nodeId]_vars

\* the naming conventions of the two embedding families
MatchesPrimary(model) == Includes(model, "text-embedding") \/ Includes(model, "openai")
MatchesSecondary(model) == Includes(model, "nomic-embed") \/ Includes(model, "ollama")

\* the vector names a successful ensureCollectionExists leaves in the collection
Provisioned == DOMAIN MultiVectors

\* every point a step adds holds one vector, under the vector name of the
\* embedding model stored in its payload, and that name is provisioned
UpsertsInNamespace ==
    [][\A pt \in points' \ points :
          /\ pt.vectorName = getVectorName(pt.payload.embeddingModel)
          /\ pt.vectorName \in Provisioned
          /\ collection.exists => pt.vectorName \in DOMAIN collection.vectors]_vars

\* every upsert addNode sends, accepted or not, names the vector derived
\* from the model that produced the embedding
UpsertsNameDerived ==
    [](op = "addNode"
        => \A i \in DOMAIN calls :
              calls[i].provider = "qdrant"
                => /\ i > 2
                   /\ calls[i].vectorName = getVectorName(calls[i - 2].model)
                   /\ calls[i].vectorName \in Provisioned)

\* C28 as stated: getVectorName gives "openai" for every model name matching
\* the primary convention, "ollama" for every model name matching the
\* secondary convention and "openai" for the others; the name it gives is
\* provisioned; every upserted point holds one vector under the name
\* derived from its stored embeddingModel.
C28_NamespaceDerivation ==
    /\ [](op = "getVectorName"
            => /\ MatchesPrimary(req.model) => res.value = "openai"
               /\ MatchesSecondary(req.model) => res.value = "ollama"
               /\ (~MatchesPrimary(req.model) /\ ~MatchesSecondary(req.model))
                     => res.value = "openai"
               /\ res.value \in Provisioned)
    /\ UpsertsInNamespace
    /\ UpsertsNameDerived

\* C28 amended: the primary convention is tried first, so that a model name
\* matching both conventions gets "openai"; "ollama" is given to the names
\* matching the secondary convention only.
C28_NamespaceDerivationPrimaryFirst ==
    /\ [](op = "getVectorName"
            => /\ res.ok
               /\ MatchesPrimary(req.model) => res.value = "openai"
               /\ (MatchesSecondary(req.model) /\ ~MatchesPrimary(req.model))
                     => res.value = "ollama"
               /\ (~MatchesPrimary(req.model) /\ ~MatchesSecondary(req.model))
                     => res.value = "openai"
               /\ res.value \in Provisioned)
    /\ [](op = "ensureCollectionExists" /\ res.ok
            => \A model \in ModelNames : getVectorName(model) \in DOMAIN collection.vectors)
    /\ UpsertsInNamespace
    /\ UpsertsNameDerived

\* a name of the secondary convention only has been given "ollama" after a
\* point was upserted under the ollama vector
C28_Witness ==
    /\ op = "getVectorName"
    /\ MatchesSecondary(req.model) /\ ~MatchesPrimary(req.model)
    /\ res.value = "ollama"
    /\ \E pt \in points : pt.vectorName = "ollama"
    /\ \E pt \in points : pt.vectorName = "openai"

\* a relation with the same source and target is stored already
Duplicate(relation) ==
    \E x \in relations : /\ x.sourceNodeId = relation.sourceNodeId
                         /\ x.targetNodeId = relation.targetNodeId

\* C30: an addRelation whose (source, target) is stored already fails and
\* changes nothing: the relations are those of before, and so are the nodes,
\* the connections of the source and of the target among them.
C30_DuplicateRelationChangesNothing ==
    [][(op' = "addRelation" /\ Duplicate(req'.relation))
          => /\ ~res'.ok
             /\ relations' = relations
             /\ nodes' = nodes
             /\ \A n \in {req'.relation.sourceNodeId, req'.relation.targetNodeId} \cap DOMAIN nodes :
                    nodes'[n].connections = nodes[n].connections
             /\ points' = points]_vars

\* a duplicate has failed between two different stored nodes
C30_Witness ==
    /\ op = "addRelation"
    /\ ~res.ok
    /\ Duplicate(req.relation)
    /\ req.relation.sourceNodeId # req.relation.targetNodeId
    /\ {req.relation.sourceNodeId, req.relation.targetNodeId} \subseteq DOMAIN nodes

====
